---------------------------- MODULE Spec2Model ----------------------------
(***************************************************************************)
(* Model of the pharmacy ordering backend (FastAPI + asyncio):             *)
(*   backend/agents/orchestrator_agent.py  chat turns, pending previews    *)
(*   backend/agents/fulfillment_agent.py   orders, status history, events  *)
(*   backend/agents/safety_agent.py        SafetyAgent.evaluate            *)
(*   backend/services/data_service.py      stock table                     *)
(*   backend/main.py                       HTTP endpoints                  *)
(*                                                                         *)
(* Every endpoint is an `async def` run on one event loop, so a handler    *)
(* runs without interruption between two points where it really suspends.  *)
(* The one await that waits for something outside the process is          *)
(* `await client.post(...)` in trigger_warehouse_webhook; the other awaits *)
(* call coroutines that never wait.  Each action below is one              *)
(* uninterrupted run of handler code between two suspensions.              *)
(***************************************************************************)
EXTENDS Integers, Sequences, FiniteSets, TLC

VARIABLES
    stock_level,        \* DataService._medicines_df['stock_level'], by medicine_id
    orders_df,          \* DataService._orders_df rows appended by add_order
    pending_previews,   \* OrchestratorAgent.pending_previews: preview_id -> OrderPreview
    session_contexts,   \* OrchestratorAgent.session_contexts: session key -> preview_id
    orders,             \* FulfillmentAgent.orders: order_id -> Order
    order_history,      \* FulfillmentAgent.order_history: order_id -> status updates
    order_events,       \* FulfillmentAgent.order_events: order_id -> timeline
    inflight,           \* coroutines suspended inside trigger_warehouse_webhook
    reply,              \* the response of the request that completed last
    preview_session,    \* history: preview_id -> the session key whose order turn stored it
    order_source,       \* history: order_id -> the preview_id its confirm turn read
    fn_in,              \* input of a pure function under check
    fn_out              \* its result

vars == << stock_level, orders_df, pending_previews, session_contexts, orders,
           order_history, order_events, inflight, reply, preview_session,
           order_source, fn_in, fn_out >>

-----------------------------------------------------------------------------
(* Bounds of the model *)

\* previews stored over a run
MaxPreviews == 2
\* orders created over a run
MaxOrders == 2
\* status updates by the cancel and inbound-webhook endpoints over a run
MaxTouches == 1
\* matched medicines handed to one SafetyAgent.evaluate call under SpecSafety
MaxMatched == 2

-----------------------------------------------------------------------------
(* Values *)

\* Optional[int] allowed_quantity = None
NoneQty == -1

\* request.session_id = None
NoSession == "None"

\* quantity used when the entity gives none
DefaultQuantity == 30

\* Python truthiness of an Optional[int]: None and 0 are false
Truthy(q) == q # NoneQty /\ q # 0

Min(a, b) == IF a <= b THEN a ELSE b

Max(a, b) == IF a >= b THEN a ELSE b

\* dict helpers
Put(f, k, v) == [x \in DOMAIN f \cup {k} |-> IF x = k THEN v ELSE f[x]]

Del(f, k) == [x \in DOMAIN f \ {k} |-> f[x]]

EmptyDict == [x \in {} |-> 0]

RECURSIVE SumSeq(_)
SumSeq(s) == IF s = << >> THEN 0 ELSE Head(s) + SumSeq(Tail(s))

RECURSIVE MapSeq(_, _)
MapSeq(F(_), s) == IF s = << >> THEN << >> ELSE << F(Head(s)) >> \o MapSeq(F, Tail(s))

-----------------------------------------------------------------------------
(* Catalog: rows as DataService._load_data reads them from                  *)
(* medicine_master.csv, in file order: an over-the-counter medicine, the   *)
(* same name in a prescription-only strength, and a discontinued one.      *)
(* stock_level is the only column the program writes.                      *)

Catalog ==
    << [medicine_id |-> "M1", medicine_name |-> "Paracetamol", strength |-> "500mg",
        prescription_required |-> FALSE, discontinued |-> FALSE,
        max_quantity_per_order |-> 30, controlled_substance |-> FALSE],
       [medicine_id |-> "M2", medicine_name |-> "Paracetamol", strength |-> "650mg",
        prescription_required |-> TRUE, discontinued |-> FALSE,
        max_quantity_per_order |-> 30, controlled_substance |-> FALSE],
       [medicine_id |-> "M3", medicine_name |-> "Oldcillin", strength |-> "250mg",
        prescription_required |-> FALSE, discontinued |-> TRUE,
        max_quantity_per_order |-> 30, controlled_substance |-> FALSE] >>

MedicineIds == { Catalog[i].medicine_id : i \in DOMAIN Catalog }

InitialStock == [m \in MedicineIds |-> CASE m = "M1" -> 10 [] m = "M2" -> 20 [] OTHER -> 5]

\* a Medicine object built from a catalog row and the current stock
Medicine(row, stock) ==
    [medicine_id |-> row.medicine_id, medicine_name |-> row.medicine_name,
     strength |-> row.strength, stock_level |-> stock[row.medicine_id],
     prescription_required |-> row.prescription_required,
     discontinued |-> row.discontinued,
     max_quantity_per_order |-> row.max_quantity_per_order,
     controlled_substance |-> row.controlled_substance]

\* str.contains on the lower-cased names.  Names and queries are drawn from a
\* set of words none of which is a proper substring of another, so containment
\* is equality, except for the empty query, which every name contains.
NameContains(name, query) == query = "" \/ query = name

\* `entity.dosage.lower() in med.strength.lower()`, on the same kind of words
DosageIn(dosage, strength) == dosage = "" \/ dosage = strength

search_medicine(query, stock) ==
    LET rows == SelectSeq(Catalog, LAMBDA r : NameContains(r.medicine_name, query))
        Build(r) == Medicine(r, stock)
    IN  MapSeq(Build, rows)


-----------------------------------------------------------------------------
(* SafetyAgent.evaluate (safety_agent.py).  A reason is <<text, medicine    *)
(* name, number quoted in the text or 0>>.                                  *)

\* the state of the loop over matched_medicines before its first iteration
EvalStart ==
    [reasons |-> << >>, blocked_items |-> << >>, requires_prescription |-> FALSE,
     allowed_quantity |-> NoneQty, requires_followup |-> FALSE]

\* entity.quantity if entity and entity.quantity > 0 else 30
RequestedQty(entities, i) ==
    IF i <= Len(entities) /\ entities[i].quantity > 0
        THEN entities[i].quantity
        ELSE DefaultQuantity

\* one iteration of the loop: the checks on one medicine
EvalItem(acc, medicine, requested_qty, has_prescription) ==
    IF medicine.discontinued
    THEN [acc EXCEPT
            !.blocked_items = Append(@, medicine.medicine_name),
            !.reasons = Append(@, <<"discontinued", medicine.medicine_name, 0>>)]
    ELSE
    LET a1 == IF medicine.prescription_required
              THEN [acc EXCEPT
                      !.requires_prescription = TRUE,
                      !.reasons = IF has_prescription THEN @
                                  ELSE Append(@, <<"requires a valid prescription",
                                                   medicine.medicine_name, 0>>)]
              ELSE acc
        a2 == IF medicine.controlled_substance
              THEN [a1 EXCEPT
                      !.reasons = Append(@, <<"controlled substance",
                                              medicine.medicine_name, 0>>),
                      !.requires_followup = TRUE]
              ELSE a1
    IN  IF medicine.stock_level = 0
        THEN [a2 EXCEPT
                !.blocked_items = Append(@, medicine.medicine_name),
                !.reasons = Append(@, <<"out of stock", medicine.medicine_name, 0>>)]
        ELSE
        LET cap == Min(medicine.stock_level, medicine.max_quantity_per_order)
            a3 == IF medicine.stock_level < requested_qty
                  THEN [a2 EXCEPT
                          !.allowed_quantity = cap,
                          !.reasons = Append(@, <<"limited stock",
                                                  medicine.medicine_name, cap>>)]
                  ELSE a2
        IN  IF requested_qty > medicine.max_quantity_per_order
            THEN [a3 EXCEPT
                    !.allowed_quantity =
                        IF Truthy(@) THEN @ ELSE medicine.max_quantity_per_order,
                    !.reasons = Append(@, <<"maximum quantity per order",
                                            medicine.medicine_name,
                                            medicine.max_quantity_per_order>>)]
            ELSE a3

\* the loop: medicines i..Len(matched_medicines), each with the i-th entity
RECURSIVE EvalLoop(_, _, _, _, _)
EvalLoop(acc, entities, matched_medicines, has_prescription, i) ==
    IF i > Len(matched_medicines) THEN acc
    ELSE EvalLoop(EvalItem(acc, matched_medicines[i], RequestedQty(entities, i),
                           has_prescription),
                  entities, matched_medicines, has_prescription, i + 1)

\* the decision as it would be if one blocked item were enough to reject
DecideAnyBlocked(acc, matched_medicines, has_prescription) ==
    IF Len(acc.blocked_items) > 0
        THEN "REJECT"
    ELSE IF acc.requires_prescription /\ ~has_prescription
        THEN "CONDITIONAL"
    ELSE IF acc.requires_followup \/ Truthy(acc.allowed_quantity)
        THEN "CONDITIONAL"
    ELSE "APPROVE"

\* the decision taken after the loop
Decide(acc, matched_medicines, has_prescription) ==
    IF Len(acc.blocked_items) > 0 /\ Len(acc.blocked_items) = Len(matched_medicines)
        THEN "REJECT"
    ELSE IF Len(acc.blocked_items) > 0
            \/ (acc.requires_prescription /\ ~has_prescription)
        THEN "CONDITIONAL"
    ELSE IF acc.requires_followup \/ Truthy(acc.allowed_quantity)
        THEN "CONDITIONAL"
    ELSE "APPROVE"

evaluate(entities, matched_medicines, has_prescription) ==
    LET acc == EvalLoop(EvalStart, entities, matched_medicines, has_prescription, 1)
        decision == Decide(acc, matched_medicines, has_prescription)
    IN  [decision |-> decision,
         reasons |-> IF decision = "APPROVE" /\ acc.reasons = << >>
                        THEN << <<"All safety checks passed.", "", 0>> >>
                        ELSE acc.reasons,
         allowed_quantity |-> acc.allowed_quantity,
         requires_followup |-> acc.requires_followup,
         requires_prescription |-> acc.requires_prescription,
         blocked_items |-> acc.blocked_items]

-----------------------------------------------------------------------------
(* Patients and chat requests *)

\* patients with rows in order_history.csv
KnownPatients == {"P1", "P2"}

\* patient ids a request may carry; "P9" has no record
PatientIds == KnownPatients \cup {"P9"}

\* the requests of the model: a patient in session "S1", the same patient
\* without session id (the session key is then the patient id), and an
\* unknown patient
ChatRequests ==
    { [patient_id |-> "P1", session_id |-> "S1"],
      [patient_id |-> "P1", session_id |-> NoSession],
      [patient_id |-> "P9", session_id |-> NoSession] }

PatientName(patient_id) == <<"name of", patient_id>>

\* get_patient_by_id as it would be if it made up a record for an id it
\* does not know
get_patient_by_id_any(patient_id) ==
    [patient_id |-> patient_id, patient_name |-> PatientName(patient_id)]

\* DataService.get_patient_by_id: the record, or None (here << >>)
get_patient_by_id(patient_id) ==
    IF patient_id \in KnownPatients
        THEN [patient_id |-> patient_id, patient_name |-> PatientName(patient_id)]
        ELSE << >>

\* the session key as it would be if it were always the patient id
SessionKeyPatientOnly(request) == request.patient_id

\* request.session_id or request.patient_id
SessionKey(request) ==
    IF request.session_id # NoSession /\ request.session_id # ""
        THEN request.session_id
        ELSE request.patient_id

-----------------------------------------------------------------------------
(* Prices, in cents per unit *)

\* price_map.get(name, 0.50)
PriceOf(medicine_name) ==
    CASE medicine_name = "Paracetamol"  -> 15
      [] medicine_name = "Metformin"    -> 20
      [] medicine_name = "Atorvastatin" -> 85
      [] medicine_name = "Lisinopril"   -> 55
      [] medicine_name = "Amlodipine"   -> 65
      [] medicine_name = "Omeprazole"   -> 40
      [] medicine_name = "Amoxicillin"  -> 35
      [] medicine_name = "Ibuprofen"    -> 20
      [] medicine_name = "Aspirin"      -> 10
      [] OTHER                          -> 50

\* sum(item.unit_price * item.quantity for item in items), a whole number of cents
Subtotal(items) ==
    LET Line(item) == item.unit_price * item.quantity
    IN  SumSeq(MapSeq(Line, items))

-----------------------------------------------------------------------------
(* DataService.update_stock and add_order *)

\* update_stock as it would be if it computed the new level from the level
\* loaded at start-up instead of the current one (a lost update)
update_stock_stale(stock, medicine_id, quantity_sold) ==
    IF medicine_id \notin DOMAIN stock
        THEN stock
        ELSE [stock EXCEPT ![medicine_id] =
                Max(0, InitialStock[medicine_id] - quantity_sold)]

\* update_stock as it would be without max(0, ...)
update_stock_unclamped(stock, medicine_id, quantity_sold) ==
    IF medicine_id \notin DOMAIN stock
        THEN stock
        ELSE [stock EXCEPT ![medicine_id] = @ - quantity_sold]

\* DataService.update_stock
update_stock(stock, medicine_id, quantity_sold) ==
    IF medicine_id \notin DOMAIN stock
        THEN stock
        ELSE [stock EXCEPT ![medicine_id] = Max(0, @ - quantity_sold)]

\* the loop `for item in order.items: data_service.update_stock(...)`
RECURSIVE UpdateStockAll(_, _)
UpdateStockAll(stock, items) ==
    IF items = << >> THEN stock
    ELSE UpdateStockAll(update_stock(stock, Head(items).medicine_id, Head(items).quantity),
                        Tail(items))

\* the loop `for item in order.items: data_service.add_order({...})`
AddOrderRows(df, order) ==
    LET Row(item) == [order_id |-> order.order_id, patient_id |-> order.patient_id,
                      medicine_id |-> item.medicine_id, quantity |-> item.quantity,
                      order_status |-> "PROCESSING"]
    IN  df \o MapSeq(Row, order.items)

-----------------------------------------------------------------------------
(* FulfillmentAgent.  fa is the agent's three dicts:                       *)
(* [orders, order_history, order_events].                                  *)

AgentEvent(agent_name, action, description, status) ==
    [agent_name |-> agent_name, action |-> action, description |-> description,
     status |-> status]

\* add_event as it would be if it put the new event first in the timeline
add_event_first(fa, order_id, agent_name, action, description, status) ==
    LET old == IF order_id \in DOMAIN fa.order_events
                  THEN fa.order_events[order_id] ELSE << >>
    IN  [fa EXCEPT !.order_events =
            Put(@, order_id, << AgentEvent(agent_name, action, description, status) >> \o old)]

add_event(fa, order_id, agent_name, action, description, status) ==
    LET old == IF order_id \in DOMAIN fa.order_events
                  THEN fa.order_events[order_id] ELSE << >>
    IN  [fa EXCEPT !.order_events =
            Put(@, order_id, Append(old, AgentEvent(agent_name, action, description, status)))]

\* the pricing loop as it would be if it priced every item at the default
\* price, whatever price the item already has
PricedAtDefault(items) ==
    LET Fix(item) == [item EXCEPT !.unit_price = PriceOf("")]
    IN  MapSeq(Fix, items)

\* the loop that fills in unit prices still at 0
Priced(items) ==
    LET Fix(item) == IF item.unit_price = 0
                        THEN [item EXCEPT !.unit_price = PriceOf(item.medicine_name)]
                        ELSE item
    IN  MapSeq(Fix, items)

create_order(fa, order_id, patient, items) ==
    LET priced == Priced(items)
        order == [order_id |-> order_id, patient_id |-> patient.patient_id,
                  patient_name |-> patient.patient_name, items |-> priced,
                  total_amount |-> Subtotal(priced), status |-> "PENDING"]
        stored == [fa EXCEPT
                     !.orders = Put(@, order_id, order),
                     !.order_history = Put(@, order_id,
                        << [status |-> "PENDING", message |-> "Order created"] >>)]
    IN  add_event(stored, order_id, "Conversational Ordering Agent", "Order Requested",
                  <<"Order initiated via conversation", "", 0>>, "completed")

record_safety_validation(fa, order_id, decision, reasons) ==
    LET first == IF reasons # << >> THEN reasons[1][1] ELSE "default"
    IN  IF decision = "APPROVE"
        THEN add_event(fa, order_id, "Safety & Policy Agent", "AI Safety Validation",
                       <<"Prescription verified and approved", "", 0>>, "completed")
        ELSE IF decision = "CONDITIONAL"
        THEN add_event(fa, order_id, "Safety & Policy Agent", "AI Safety Validation",
                       <<"Conditional approval", first, 0>>, "completed")
        ELSE add_event(fa, order_id, "Safety & Policy Agent", "Blocked by AI",
                       <<"Blocked", first, 0>>, "blocked")

record_order_confirmed(fa, order_id) ==
    add_event(fa, order_id, "Safety & Policy Agent", "AI Order Confirmed",
              <<"AI validated and confirmed order", "", 0>>, "completed")

record_inventory_updated(fa, order_id, quantity) ==
    add_event(fa, order_id, "Inventory & Fulfillment Agent", "Inventory Updated",
              <<"Stock reduced by", "", quantity>>, "completed")

record_fulfillment_initiated(fa, order_id) ==
    add_event(fa, order_id, "Inventory & Fulfillment Agent", "Fulfillment Initiated",
              <<"Warehouse notified for fulfillment", "", 0>>, "completed")

\* update_order_status as it would be if it set the status and recorded
\* nothing in the history
update_order_status_unrecorded(fa, order_id, status, message) ==
    IF order_id \notin DOMAIN fa.orders
        THEN fa
        ELSE [fa EXCEPT !.orders[order_id].status = status]

update_order_status(fa, order_id, status, message) ==
    IF order_id \notin DOMAIN fa.orders
        THEN fa
        ELSE [fa EXCEPT
                !.orders[order_id].status = status,
                !.order_history = Put(@, order_id,
                    Append(IF order_id \in DOMAIN @ THEN @[order_id] ELSE << >>,
                           [status |-> status, message |-> message]))]

\* send_receipt_notification: the only state it changes is the timeline
send_receipt_notification(fa, order_id) ==
    add_event(fa, order_id, "System", "Notifications Sent",
              <<"Receipt sent", "", 0>>, "completed")

\* trigger_warehouse_webhook as it would be if a 200 response set the order
\* back to CONFIRMED
WebhookResultConfirmed(fa, order_id, outcome) ==
    IF outcome = "200"
        THEN add_event(update_order_status(fa, order_id, "CONFIRMED",
                                           "Order sent to warehouse for fulfillment"),
                       order_id, "System", "Dispatched",
                       <<"Package dispatched from warehouse", "", 0>>, "completed")
        ELSE fa

\* the body of trigger_warehouse_webhook after `client.post` has returned or raised
WebhookResult(fa, order_id, outcome) ==
    IF outcome = "200"
        THEN add_event(update_order_status(fa, order_id, "PROCESSING",
                                           "Order sent to warehouse for fulfillment"),
                       order_id, "System", "Dispatched",
                       <<"Package dispatched from warehouse", "", 0>>, "completed")
        ELSE fa

-----------------------------------------------------------------------------
(* OrchestratorAgent._handle_order, up to the preview *)

\* Step 2: for each entity with search results, the first result whose strength
\* contains the dosage, else the first result; entities without results add nothing
RECURSIVE MatchMedicines(_, _)
MatchMedicines(entities, stock) ==
    IF entities = << >> THEN << >>
    ELSE LET entity == Head(entities)
             search_results == search_medicine(entity.medicine, stock)
             fits == SelectSeq(search_results,
                               LAMBDA med : DosageIn(entity.dosage, med.strength))
             rest == MatchMedicines(Tail(entities), stock)
         IN  IF search_results = << >> THEN rest
             ELSE IF fits # << >> THEN << fits[1] >> \o rest
             ELSE << search_results[1] >> \o rest

\* Step 4: one line item per entity i that has an i-th matched medicine
RECURSIVE PreviewItems(_, _, _, _)
PreviewItems(entities, matched_medicines, allowed_quantity, i) ==
    IF i > Len(entities) THEN << >>
    ELSE IF i > Len(matched_medicines)
        THEN PreviewItems(entities, matched_medicines, allowed_quantity, i + 1)
    ELSE LET med == matched_medicines[i]
             asked == IF entities[i].quantity > 0
                         THEN entities[i].quantity ELSE DefaultQuantity
             quantity == IF Truthy(allowed_quantity)
                            THEN Min(asked, allowed_quantity) ELSE asked
         IN  << [medicine_id |-> med.medicine_id, medicine_name |-> med.medicine_name,
                 strength |-> med.strength, quantity |-> quantity,
                 unit_price |-> PriceOf(med.medicine_name),
                 prescription_required |-> med.prescription_required] >>
             \o PreviewItems(entities, matched_medicines, allowed_quantity, i + 1)

BuildPreview(preview_id, patient, entities, matched_medicines, safety_result) ==
    LET items == PreviewItems(entities, matched_medicines,
                              safety_result.allowed_quantity, 1)
    IN  [preview_id |-> preview_id, patient_id |-> patient.patient_id,
         patient_name |-> patient.patient_name, items |-> items,
         total_amount |-> Subtotal(items),
         safety_decision |-> safety_result.decision,
         safety_reasons |-> safety_result.reasons,
         requires_prescription |-> safety_result.requires_prescription]

\* lines 314-316: the preview is stored and the session key bound to it
StorePreview(previews, contexts, key, preview) ==
    [pending_previews |-> Put(previews, preview.preview_id, preview),
     session_contexts |-> Put(contexts, key, preview.preview_id)]

-----------------------------------------------------------------------------
(* OrchestratorAgent._handle_order_confirmation, from create_order to the   *)
(* call of trigger_warehouse_webhook (lines 348-379)                        *)

\* the pipeline as it would be if the confirmation were recorded before the
\* safety validation
ConfirmPipelineConfirmFirst(fa, stock, order_id, patient, preview) ==
    LET f1 == create_order(fa, order_id, patient, preview.items)
        order == f1.orders[order_id]
        f2 == record_order_confirmed(f1, order_id)
        f3 == update_order_status(f2, order_id, "CONFIRMED", "Order confirmed by patient")
        f4 == record_safety_validation(f3, order_id, preview.safety_decision,
                                       preview.safety_reasons)
        f5 == update_order_status(f4, order_id, "VALIDATED", "Safety validation completed")
        stock2 == UpdateStockAll(stock, order.items)
        Qty(item) == item.quantity
        f6 == record_inventory_updated(f5, order_id, SumSeq(MapSeq(Qty, order.items)))
        f7 == record_fulfillment_initiated(f6, order_id)
        f8 == update_order_status(f7, order_id, "PROCESSING",
                                  "Order is being processed for delivery")
    IN  [fa |-> f8, stock |-> stock2]

\* the pipeline as it would be if it recorded its events and decremented the
\* stock but left the order in the status create_order gave it
ConfirmPipelineLeavesPending(fa, stock, order_id, patient, preview) ==
    LET f1 == create_order(fa, order_id, patient, preview.items)
        order == f1.orders[order_id]
        f2 == record_safety_validation(f1, order_id, preview.safety_decision,
                                       preview.safety_reasons)
        f4 == record_order_confirmed(f2, order_id)
        stock2 == UpdateStockAll(stock, order.items)
        Qty(item) == item.quantity
        f6 == record_inventory_updated(f4, order_id, SumSeq(MapSeq(Qty, order.items)))
        f7 == record_fulfillment_initiated(f6, order_id)
    IN  [fa |-> f7, stock |-> stock2]

ConfirmPipeline(fa, stock, order_id, patient, preview) ==
    LET f1 == create_order(fa, order_id, patient, preview.items)
        order == f1.orders[order_id]
        f2 == record_safety_validation(f1, order_id, preview.safety_decision,
                                       preview.safety_reasons)
        f3 == update_order_status(f2, order_id, "VALIDATED", "Safety validation completed")
        f4 == record_order_confirmed(f3, order_id)
        f5 == update_order_status(f4, order_id, "CONFIRMED", "Order confirmed by patient")
        stock2 == UpdateStockAll(stock, order.items)
        Qty(item) == item.quantity
        f6 == record_inventory_updated(f5, order_id, SumSeq(MapSeq(Qty, order.items)))
        f7 == record_fulfillment_initiated(f6, order_id)
        f8 == update_order_status(f7, order_id, "PROCESSING",
                                  "Order is being processed for delivery")
    IN  [fa |-> f8, stock |-> stock2]

\* the clean-up as it would be if it emptied session_contexts instead of
\* deleting the one key of its session
CleanUpEverySession(previews, contexts, key, preview_id) ==
    IF preview_id \in DOMAIN previews
        THEN [raised |-> FALSE, pending_previews |-> Del(previews, preview_id),
              session_contexts |-> EmptyDict]
        ELSE [raised |-> TRUE, pending_previews |-> previews,
              session_contexts |-> contexts]

\* lines 408-411: del pending_previews[preview_id] raises KeyError when the
\* preview is gone; the session key is unbound only after the del succeeded
CleanUp(previews, contexts, key, preview_id) ==
    IF preview_id \in DOMAIN previews
        THEN [raised |-> FALSE, pending_previews |-> Del(previews, preview_id),
              session_contexts |-> Del(contexts, key)]
        ELSE [raised |-> TRUE, pending_previews |-> previews,
              session_contexts |-> contexts]

-----------------------------------------------------------------------------
(* Inputs *)

\* entities the extractor may return ("Zzz" is in no catalog row; quantity 0
\* is the extractor's "not stated")
EntityParacetamol == [medicine |-> "Paracetamol", dosage |-> "", quantity |-> 6]

EntityOldcillin == [medicine |-> "Oldcillin", dosage |-> "650mg", quantity |-> 6]

EntityUnknown == [medicine |-> "Zzz", dosage |-> "", quantity |-> 0]

\* what ExtractionAgent.extract may return: a request for clarification, no
\* entity, one entity of each kind, and the same medicine asked for twice
ExtractionResults ==
    { [entities |-> es, needs_clarification |-> FALSE] :
        es \in { << >>, << EntityParacetamol >>, << EntityOldcillin >>,
                 << EntityUnknown >>, << EntityParacetamol, EntityParacetamol >> } }
    \cup { [entities |-> << >>, needs_clarification |-> TRUE] }

\* how `client.post` ends: status 200, another status, an exception (network
\* error or the 10 s timeout)
WebhookOutcomes == {"200", "500", "exception"}

\* uuid-derived ids: the n-th id generated.  Under Spec the ids generated are
\* pairwise different; SpecOrders below draws them as uuid4 does.
PreviewId(n) == <<"PRV", n>>

OrderId(n) == <<"ORD", n>>

\* order ids a request may name: those that can exist, and one that never does
RequestOrderIds == { OrderId(n) : n \in 1..(MaxOrders + 1) }

\* messages of the status updates made by the order endpoints of main.py
EndpointMessages ==
    { "Order confirmed", "Preparing order", "Order cancelled by user",
      "Order received by warehouse, processing for shipment" }

\* status updates made so far by the order endpoints, over all orders
Touches ==
    LET Count(h) == Len(SelectSeq(h, LAMBDA u : u.message \in EndpointMessages))
        RECURSIVE Total(_)
        Total(ids) == IF ids = {} THEN 0
                      ELSE LET id == CHOOSE x \in ids : TRUE
                           IN  Count(order_history[id]) + Total(ids \ {id})
    IN  Total(DOMAIN order_history)

Response(op, status, kind, ref) == [op |-> op, status |-> status, kind |-> kind, ref |-> ref]

FA == [orders |-> orders, order_history |-> order_history, order_events |-> order_events]

SetFA(fa) ==
    /\ orders' = fa.orders
    /\ order_history' = fa.order_history
    /\ order_events' = fa.order_events

-----------------------------------------------------------------------------
(* Initial state: the process after import, nothing stored *)

Constructed ==
    /\ stock_level = InitialStock
    /\ orders_df = << >>
    /\ pending_previews = EmptyDict
    /\ session_contexts = EmptyDict
    /\ orders = EmptyDict
    /\ order_history = EmptyDict
    /\ order_events = EmptyDict
    /\ inflight = {}
    /\ reply = Response("none", 0, "none", << >>)
    /\ preview_session = EmptyDict
    /\ order_source = EmptyDict

Init ==
    /\ Constructed
    /\ fn_in = << >>
    /\ fn_out = << >>

-----------------------------------------------------------------------------
(* Intent classification: OrchestratorAgent._determine_intent and the      *)
(* dispatch of process_message                                             *)

\* the six intents of the system prompt
Intents ==
    {"ORDER", "REFILL_CHECK", "STATUS_CHECK", "GENERAL_INQUIRY", "CONFIRM_ORDER",
     "CANCEL_ORDER"}

\* how the classifier call ends: the call raises; the content is not JSON;
\* the content is a JSON object without "intent"; the content is a JSON
\* object whose "intent" is one of the six or another value ("SMALL_TALK")
ClassifierResponses ==
    {"call failed", "not JSON", "no intent field", "SMALL_TALK"} \cup Intents

NoIntent == "<no intent key>"

\* _determine_intent: the parsed object, or in the except branch the
\* GENERAL_INQUIRY fallback, whose response_draft is the apology followed
\* by "(Error: {str(e)})" (kept apart here as `detail`)
determine_intent(response) ==
    IF response \in {"call failed", "not JSON"}
        THEN [intent |-> "GENERAL_INQUIRY", response_draft |-> "apology",
              detail |-> << "Error: " \o response >>]
    ELSE IF response = "no intent field"
        THEN [intent |-> NoIntent, response_draft |-> "draft", detail |-> << >>]
    ELSE [intent |-> response, response_draft |-> "draft", detail |-> << >>]

\* process_message lines 130-145: the handler the if/elif chain on
\* intent_result["intent"] selects
Handler(intent_result) ==
    IF intent_result.intent = NoIntent THEN "KeyError"
    ELSE IF intent_result.intent = "ORDER" THEN "_handle_order"
    ELSE IF intent_result.intent = "REFILL_CHECK" THEN "_handle_refill_check"
    ELSE IF intent_result.intent = "CONFIRM_ORDER" THEN "_handle_order_confirmation"
    ELSE IF intent_result.intent = "CANCEL_ORDER" THEN "_handle_order_cancellation"
    ELSE IF intent_result.intent = "STATUS_CHECK" THEN "_handle_status_check"
    ELSE "general"

-----------------------------------------------------------------------------
(* Chat turns: OrchestratorAgent.process_message via POST /api/chat.  The  *)
(* ORDER, CONFIRM_ORDER and CANCEL_ORDER turns are ChatOrder, ChatConfirm  *)
(* and ChatCancel; REFILL_CHECK and STATUS_CHECK turns only read and are   *)
(* not among the actions.                                                  *)

\* process_message, patient lookup fails (lines 108-113)
ChatPatientNotFound(request) ==
    /\ get_patient_by_id(request.patient_id) = << >>
    /\ reply' = Response("chat", 200, "patient not found", << >>)
    /\ UNCHANGED << stock_level, orders_df, pending_previews, session_contexts, orders,
                    order_history, order_events, inflight, preview_session, order_source,
                    fn_in, fn_out >>

\* _handle_order as it would be without the early return on REJECT: the
\* refusal is replied but the preview is built and stored all the same
ChatOrderStoresRejected(request, extraction_result) ==
    /\ get_patient_by_id(request.patient_id) # << >>
    /\ Cardinality(DOMAIN preview_session) < MaxPreviews
    /\ LET patient == get_patient_by_id(request.patient_id)
           entities == extraction_result.entities
           matched_medicines == MatchMedicines(entities, stock_level)
           safety_result == evaluate(entities, matched_medicines, FALSE)
           preview_id == PreviewId(Cardinality(DOMAIN preview_session) + 1)
           preview == BuildPreview(preview_id, patient, entities, matched_medicines,
                                   safety_result)
           stored == StorePreview(pending_previews, session_contexts,
                                  SessionKey(request), preview)
       IN  IF extraction_result.needs_clarification
           THEN /\ reply' = Response("chat", 200, "clarification", << >>)
                /\ UNCHANGED << pending_previews, session_contexts, preview_session >>
           ELSE IF entities = << >>
           THEN /\ reply' = Response("chat", 200, "no medication identified", << >>)
                /\ UNCHANGED << pending_previews, session_contexts, preview_session >>
           ELSE IF matched_medicines = << >>
           THEN /\ reply' = Response("chat", 200, "not in inventory", << >>)
                /\ UNCHANGED << pending_previews, session_contexts, preview_session >>
           ELSE /\ pending_previews' = stored.pending_previews
                /\ session_contexts' = stored.session_contexts
                /\ preview_session' = Put(preview_session, preview_id, SessionKey(request))
                /\ reply' = IF safety_result.decision = "REJECT"
                               THEN Response("chat", 200, "refused", << >>)
                               ELSE Response("chat", 200,
                                     IF safety_result.decision = "CONDITIONAL"
                                        THEN "preview, conditional" ELSE "preview",
                                     preview_id)
    /\ UNCHANGED << stock_level, orders_df, orders, order_history, order_events,
                    inflight, order_source, fn_in, fn_out >>

\* intent ORDER: _handle_order
ChatOrder(request, extraction_result) ==
    /\ get_patient_by_id(request.patient_id) # << >>
    /\ Cardinality(DOMAIN preview_session) < MaxPreviews
    /\ LET patient == get_patient_by_id(request.patient_id)
           entities == extraction_result.entities
           matched_medicines == MatchMedicines(entities, stock_level)
           safety_result == evaluate(entities, matched_medicines, FALSE)
           preview_id == PreviewId(Cardinality(DOMAIN preview_session) + 1)
           preview == BuildPreview(preview_id, patient, entities, matched_medicines,
                                   safety_result)
           stored == StorePreview(pending_previews, session_contexts,
                                  SessionKey(request), preview)
       IN  IF extraction_result.needs_clarification
           THEN /\ reply' = Response("chat", 200, "clarification", << >>)
                /\ UNCHANGED << pending_previews, session_contexts, preview_session >>
           ELSE IF entities = << >>
           THEN /\ reply' = Response("chat", 200, "no medication identified", << >>)
                /\ UNCHANGED << pending_previews, session_contexts, preview_session >>
           ELSE IF matched_medicines = << >>
           THEN /\ reply' = Response("chat", 200, "not in inventory", << >>)
                /\ UNCHANGED << pending_previews, session_contexts, preview_session >>
           ELSE IF safety_result.decision = "REJECT"
           THEN /\ reply' = Response("chat", 200, "refused", << >>)
                /\ UNCHANGED << pending_previews, session_contexts, preview_session >>
           ELSE /\ pending_previews' = stored.pending_previews
                /\ session_contexts' = stored.session_contexts
                /\ preview_session' = Put(preview_session, preview_id, SessionKey(request))
                /\ reply' = Response("chat", 200,
                                     IF safety_result.decision = "CONDITIONAL"
                                        THEN "preview, conditional" ELSE "preview",
                                     preview_id)
    /\ UNCHANGED << stock_level, orders_df, orders, order_history, order_events,
                    inflight, order_source, fn_in, fn_out >>

\* intent CONFIRM_ORDER: _handle_order_confirmation up to its suspension in
\* `await fulfillment_agent.trigger_warehouse_webhook(order)` (lines 335-382)
ChatConfirm(request) ==
    /\ get_patient_by_id(request.patient_id) # << >>
    /\ LET patient == get_patient_by_id(request.patient_id)
           session_id == SessionKey(request)
           bound == session_id \in DOMAIN session_contexts
           preview_id == session_contexts[session_id]
       IN  IF ~bound \/ preview_id \notin DOMAIN pending_previews
           THEN /\ reply' = Response("chat", 200, "nothing to confirm", << >>)
                /\ UNCHANGED << stock_level, orders, order_history, order_events,
                                inflight, order_source >>
           ELSE /\ Cardinality(DOMAIN orders) < MaxOrders
                /\ LET order_id == OrderId(Cardinality(DOMAIN orders) + 1)
                       done == ConfirmPipeline(FA, stock_level, order_id, patient,
                                               pending_previews[preview_id])
                   IN  /\ SetFA(done.fa)
                       /\ stock_level' = done.stock
                       /\ inflight' = inflight \cup
                            { [kind |-> "chat", order_id |-> order_id,
                               session_id |-> session_id, preview_id |-> preview_id] }
                       /\ order_source' = Put(order_source, order_id, preview_id)
                /\ UNCHANGED reply
    /\ UNCHANGED << orders_df, pending_previews, session_contexts, preview_session,
                    fn_in, fn_out >>

\* _handle_order_cancellation as it would be if it removed the preview and
\* left the session key bound to it
handle_order_cancellation_keep_binding(previews, contexts, session_id) ==
    LET bound == session_id \in DOMAIN contexts
    IN  [pending_previews |->
            IF bound /\ contexts[session_id] \in DOMAIN previews
                THEN Del(previews, contexts[session_id])
                ELSE previews,
         session_contexts |-> contexts]

\* _handle_order_cancellation, lines 443-449: the two dicts after the turn
handle_order_cancellation(previews, contexts, session_id) ==
    LET bound == session_id \in DOMAIN contexts
    IN  [pending_previews |->
            IF bound /\ contexts[session_id] \in DOMAIN previews
                THEN Del(previews, contexts[session_id])
                ELSE previews,
         session_contexts |-> Del(contexts, session_id)]

\* intent CANCEL_ORDER: _handle_order_cancellation
ChatCancel(request) ==
    /\ get_patient_by_id(request.patient_id) # << >>
    /\ LET cancelled == handle_order_cancellation(pending_previews, session_contexts,
                                                  SessionKey(request))
       IN  /\ pending_previews' = cancelled.pending_previews
           /\ session_contexts' = cancelled.session_contexts
    /\ reply' = Response("chat", 200, "cancelled", << >>)
    /\ UNCHANGED << stock_level, orders_df, orders, order_history, order_events,
                    inflight, preview_session, order_source, fn_in, fn_out >>

\* the final else of the dispatch: GENERAL_INQUIRY, an intent value that is
\* none of the six, and the fallback of _determine_intent; the reply is the
\* response_draft
ChatGeneral(request, response) ==
    /\ get_patient_by_id(request.patient_id) # << >>
    /\ Handler(determine_intent(response)) = "general"
    /\ reply' = Response("chat", 200, determine_intent(response).response_draft,
                         determine_intent(response).detail)
    /\ UNCHANGED << stock_level, orders_df, pending_previews, session_contexts, orders,
                    order_history, order_events, inflight, preview_session, order_source,
                    fn_in, fn_out >>

\* the classifier's JSON object has no "intent": intent_result["intent"]
\* raises KeyError at the first test of the dispatch (line 130), and
\* POST /api/chat answers 500
ChatIntentMissing(request, response) ==
    /\ get_patient_by_id(request.patient_id) # << >>
    /\ Handler(determine_intent(response)) = "KeyError"
    /\ reply' = Response("chat", 500, "internal error", <<"KeyError: intent">>)
    /\ UNCHANGED << stock_level, orders_df, pending_previews, session_contexts, orders,
                    order_history, order_events, inflight, preview_session, order_source,
                    fn_in, fn_out >>

-----------------------------------------------------------------------------
(* FulfillmentAgent.trigger_warehouse_webhook, awaited by the chat confirm  *)
(* turn and run as a background task by POST /api/orders/{id}/confirm      *)

\* `await client.post(...)` returns or raises and the coroutine runs on.  A
\* background task ends with trigger_warehouse_webhook; the chat confirm turn
\* runs to its end (orchestrator_agent.py lines 384-439), and a KeyError from
\* the clean-up reaches POST /api/chat, which answers 500
WebhookReturns(task, outcome) ==
    /\ task \in inflight
    /\ inflight' = inflight \ {task}
    /\ IF task.kind = "chat"
       THEN LET cleaned == CleanUp(pending_previews, session_contexts,
                                   task.session_id, task.preview_id)
            IN  /\ SetFA(send_receipt_notification(
                            WebhookResult(FA, task.order_id, outcome), task.order_id))
                /\ orders_df' = AddOrderRows(orders_df, orders[task.order_id])
                /\ pending_previews' = cleaned.pending_previews
                /\ session_contexts' = cleaned.session_contexts
                /\ reply' = IF cleaned.raised
                               THEN Response("chat", 500, "internal error", task.preview_id)
                               ELSE Response("chat", 200, "order confirmed", task.order_id)
       ELSE /\ SetFA(WebhookResult(FA, task.order_id, outcome))
            /\ UNCHANGED << orders_df, pending_previews, session_contexts, reply >>
    /\ UNCHANGED << stock_level, preview_session, order_source, fn_in, fn_out >>

-----------------------------------------------------------------------------
(* Order endpoints of main.py *)

\* confirm_order as it would be without the check that the order is PENDING
ConfirmOrderEndpointAnyStatus(order_id) ==
    IF order_id \notin DOMAIN orders
    THEN /\ reply' = Response("confirm_order", 404, "Order not found", << >>)
         /\ UNCHANGED << stock_level, orders, order_history, order_events, inflight >>
         /\ UNCHANGED << orders_df, pending_previews, session_contexts, preview_session,
                         order_source, fn_in, fn_out >>
    ELSE /\ SetFA(update_order_status(
                    update_order_status(FA, order_id, "CONFIRMED", "Order confirmed"),
                    order_id, "PREPARING", "Preparing order"))
         /\ stock_level' = UpdateStockAll(stock_level, orders[order_id].items)
         /\ inflight' = inflight \cup
                { [kind |-> "background", order_id |-> order_id,
                   session_id |-> "", preview_id |-> << >>] }
         /\ reply' = Response("confirm_order", 200, "confirmed", order_id)
         /\ UNCHANGED << orders_df, pending_previews, session_contexts, preview_session,
                         order_source, fn_in, fn_out >>

\* POST /api/orders/{order_id}/confirm
ConfirmOrderEndpoint(order_id) ==
    IF order_id \notin DOMAIN orders
    THEN /\ reply' = Response("confirm_order", 404, "Order not found", << >>)
         /\ UNCHANGED << stock_level, orders, order_history, order_events, inflight >>
         /\ UNCHANGED << orders_df, pending_previews, session_contexts, preview_session,
                         order_source, fn_in, fn_out >>
    ELSE IF orders[order_id].status # "PENDING"
    THEN /\ reply' = Response("confirm_order", 400, "Order is not pending", << >>)
         /\ UNCHANGED << stock_level, orders, order_history, order_events, inflight >>
         /\ UNCHANGED << orders_df, pending_previews, session_contexts, preview_session,
                         order_source, fn_in, fn_out >>
    ELSE /\ SetFA(update_order_status(
                    update_order_status(FA, order_id, "CONFIRMED", "Order confirmed"),
                    order_id, "PREPARING", "Preparing order"))
         /\ stock_level' = UpdateStockAll(stock_level, orders[order_id].items)
         /\ inflight' = inflight \cup
                { [kind |-> "background", order_id |-> order_id,
                   session_id |-> "", preview_id |-> << >>] }
         /\ reply' = Response("confirm_order", 200, "confirmed", order_id)
         /\ UNCHANGED << orders_df, pending_previews, session_contexts, preview_session,
                         order_source, fn_in, fn_out >>

\* cancel_order as it would be if only COMPLETED counted as terminal, so that
\* a cancelled order could be cancelled again
CancelOrderEndpointCompletedOnly(order_id) ==
    /\ IF order_id \notin DOMAIN orders
       THEN /\ reply' = Response("cancel_order", 404, "Order not found", << >>)
            /\ UNCHANGED << orders, order_history, order_events >>
       ELSE IF orders[order_id].status = "COMPLETED"
       THEN /\ reply' = Response("cancel_order", 400, "Cannot cancel order", << >>)
            /\ UNCHANGED << orders, order_history, order_events >>
       ELSE /\ Touches < MaxTouches \/ orders[order_id].status = "CANCELLED"
            /\ SetFA(update_order_status(FA, order_id, "CANCELLED",
                                         "Order cancelled by user"))
            /\ reply' = Response("cancel_order", 200, "cancelled", order_id)
    /\ UNCHANGED << stock_level, orders_df, pending_previews, session_contexts, inflight,
                    preview_session, order_source, fn_in, fn_out >>

\* POST /api/orders/{order_id}/cancel
CancelOrderEndpoint(order_id) ==
    /\ IF order_id \notin DOMAIN orders
       THEN /\ reply' = Response("cancel_order", 404, "Order not found", << >>)
            /\ UNCHANGED << orders, order_history, order_events >>
       ELSE IF orders[order_id].status \in {"COMPLETED", "CANCELLED"}
       THEN /\ reply' = Response("cancel_order", 400, "Cannot cancel order", << >>)
            /\ UNCHANGED << orders, order_history, order_events >>
       ELSE /\ Touches < MaxTouches
            /\ SetFA(update_order_status(FA, order_id, "CANCELLED",
                                         "Order cancelled by user"))
            /\ reply' = Response("cancel_order", 200, "cancelled", order_id)
    /\ UNCHANGED << stock_level, orders_df, pending_previews, session_contexts, inflight,
                    preview_session, order_source, fn_in, fn_out >>

\* POST /api/webhook/warehouse
WarehouseWebhookEndpoint(order_id) ==
    /\ IF order_id \in DOMAIN orders
       THEN /\ Touches < MaxTouches
            /\ SetFA(update_order_status(FA, order_id, "PROCESSING",
                        "Order received by warehouse, processing for shipment"))
       ELSE UNCHANGED << orders, order_history, order_events >>
    /\ reply' = Response("warehouse_webhook", 200, "received", order_id)
    /\ UNCHANGED << stock_level, orders_df, pending_previews, session_contexts, inflight,
                    preview_session, order_source, fn_in, fn_out >>

-----------------------------------------------------------------------------
(* The server: any request may arrive, any suspended coroutine may resume *)

Next ==
    \/ \E request \in ChatRequests : ChatPatientNotFound(request)
    \/ \E request \in ChatRequests, extraction_result \in ExtractionResults :
            ChatOrder(request, extraction_result)
    \/ \E request \in ChatRequests : ChatConfirm(request)
    \/ \E request \in ChatRequests : ChatCancel(request)
    \/ \E request \in ChatRequests, response \in ClassifierResponses :
            ChatGeneral(request, response)
    \/ \E request \in ChatRequests, response \in ClassifierResponses :
            ChatIntentMissing(request, response)
    \/ \E task \in inflight, outcome \in WebhookOutcomes : WebhookReturns(task, outcome)
    \/ \E order_id \in RequestOrderIds : ConfirmOrderEndpoint(order_id)
    \/ \E order_id \in RequestOrderIds : CancelOrderEndpoint(order_id)
    \/ \E order_id \in RequestOrderIds : WarehouseWebhookEndpoint(order_id)

Spec == Init /\ [][Next]_vars

-----------------------------------------------------------------------------
(* The chat turns of two patients whose requests carry the same session id *)

\* requests of two known patients in session "S1"
SharedSessionRequests ==
    { [patient_id |-> "P1", session_id |-> "S1"],
      [patient_id |-> "P2", session_id |-> "S1"] }

NextShared ==
    \/ \E request \in SharedSessionRequests, extraction_result \in ExtractionResults :
            ChatOrder(request, extraction_result)
    \/ \E request \in SharedSessionRequests : ChatConfirm(request)
    \/ \E request \in SharedSessionRequests : ChatCancel(request)
    \/ \E task \in inflight, outcome \in WebhookOutcomes : WebhookReturns(task, outcome)

SpecShared == Init /\ [][NextShared]_vars

-----------------------------------------------------------------------------
(* SafetyAgent.evaluate on its own: any call of it, on medicines in any    *)
(* condition                                                                *)

\* a Medicine object as evaluate may receive it
\* (rx: prescription_required, controlled: controlled_substance)
MedicineWith(medicine_name, rx, discontinued, controlled, stock, max_quantity) ==
    [medicine_id |-> medicine_name, medicine_name |-> medicine_name,
     strength |-> "500mg", stock_level |-> stock,
     prescription_required |-> rx, discontinued |-> discontinued,
     max_quantity_per_order |-> max_quantity, controlled_substance |-> controlled]

\* medicines in every condition evaluate tells apart: plain; stock below the
\* usual request; order limit below the stock; both small; out of stock;
\* discontinued, in and out of stock; prescription only, in and out of stock;
\* controlled, in and out of stock; order limit 0
SafetyMedicines ==
    { MedicineWith("plain",          FALSE, FALSE, FALSE, 20, 30),
      MedicineWith("low stock",      FALSE, FALSE, FALSE,  5, 30),
      MedicineWith("low limit",      FALSE, FALSE, FALSE, 20, 10),
      MedicineWith("low both",       FALSE, FALSE, FALSE,  5, 10),
      MedicineWith("out of stock",   FALSE, FALSE, FALSE,  0, 30),
      MedicineWith("discontinued",   FALSE, TRUE,  FALSE, 20, 30),
      MedicineWith("gone",           FALSE, TRUE,  FALSE,  0, 30),
      MedicineWith("rx",             TRUE,  FALSE, FALSE, 20, 30),
      MedicineWith("rx out",         TRUE,  FALSE, FALSE,  0, 30),
      MedicineWith("controlled",     FALSE, FALSE, TRUE,  20, 30),
      MedicineWith("controlled out", FALSE, FALSE, TRUE,   0, 30),
      MedicineWith("limit 0",        FALSE, FALSE, FALSE, 20,  0) }

\* quantities an entity may carry: not stated, small, above every limit
SafetyQuantities == {0, 6, 40}

SafetyEntities ==
    { [medicine |-> "", dosage |-> "", quantity |-> q] : q \in SafetyQuantities }

\* the calls: 1..MaxMatched matched medicines, with fewer, as many or no entities
SafetyInputs ==
    [ entities : UNION { [1..n -> SafetyEntities] : n \in 0..MaxMatched },
      matched_medicines : UNION { [1..n -> SafetyMedicines] : n \in 1..MaxMatched },
      has_prescription : BOOLEAN ]

NotCalled == [decision |-> "not called"]

InitSafety ==
    /\ Constructed
    /\ fn_in \in SafetyInputs
    /\ fn_out = NotCalled

SafetyEvaluate ==
    /\ fn_out = NotCalled
    /\ fn_out' = evaluate(fn_in.entities, fn_in.matched_medicines, fn_in.has_prescription)
    /\ UNCHANGED << stock_level, orders_df, pending_previews, session_contexts, orders,
                    order_history, order_events, inflight, reply, preview_session,
                    order_source, fn_in >>

NextSafety == SafetyEvaluate

SpecSafety == InitSafety /\ [][NextSafety]_vars

-----------------------------------------------------------------------------
(* OrchestratorAgent._handle_order from the safety check to the line items *)
(* (lines 248-282), on any matched medicines                               *)

\* the entities and the medicines matched to them: as the matching adds at
\* most one medicine per entity, there are at least as many entities
PreviewInputs ==
    { in \in SafetyInputs :
        /\ ~in.has_prescription
        /\ Len(in.entities) >= Len(in.matched_medicines) }

InitPreview ==
    /\ Constructed
    /\ fn_in \in PreviewInputs
    /\ fn_out = NotCalled

\* the safety check with has_prescription=False, then the preview (none when
\* the decision is REJECT)
PreviewOrder ==
    /\ fn_out = NotCalled
    /\ LET safety_result == evaluate(fn_in.entities, fn_in.matched_medicines, FALSE)
       IN  fn_out' =
             [decision |-> safety_result.decision,
              safety_result |-> safety_result,
              items |-> IF safety_result.decision = "REJECT" THEN << >>
                        ELSE BuildPreview(PreviewId(1), get_patient_by_id("P1"),
                                          fn_in.entities, fn_in.matched_medicines,
                                          safety_result).items]
    /\ UNCHANGED << stock_level, orders_df, pending_previews, session_contexts, orders,
                    order_history, order_events, inflight, reply, preview_session,
                    order_source, fn_in >>

NextPreview == PreviewOrder

SpecPreview == InitPreview /\ [][NextPreview]_vars

-----------------------------------------------------------------------------
(* OrchestratorAgent._handle_order from the matching to the line items     *)
(* (lines 225-282), on any extracted entities and the catalog as loaded    *)

\* most entities in one extraction
MaxEntities == 3

EntityParacetamol650 == [medicine |-> "Paracetamol", dosage |-> "650mg", quantity |-> 40]

\* what the extractor may put in its list
TurnEntities == { EntityParacetamol, EntityParacetamol650, EntityOldcillin, EntityUnknown }

InitTurn ==
    /\ Constructed
    /\ fn_in \in UNION { [1..n -> TurnEntities] : n \in 0..MaxEntities }
    /\ fn_out = NotCalled

\* Steps 2 to 4 of _handle_order on the entities
OrderTurn ==
    /\ fn_out = NotCalled
    /\ LET matched_medicines == MatchMedicines(fn_in, stock_level)
           safety_result == evaluate(fn_in, matched_medicines, FALSE)
       IN  fn_out' =
             IF fn_in = << >> THEN [decision |-> "no medication identified"]
             ELSE IF matched_medicines = << >> THEN [decision |-> "not in inventory"]
             ELSE [decision |-> safety_result.decision,
                   matched_medicines |-> matched_medicines,
                   safety_result |-> safety_result,
                   items |-> IF safety_result.decision = "REJECT" THEN << >>
                             ELSE BuildPreview(PreviewId(1), get_patient_by_id("P1"),
                                               fn_in, matched_medicines,
                                               safety_result).items]
    /\ UNCHANGED << stock_level, orders_df, pending_previews, session_contexts, orders,
                    order_history, order_events, inflight, reply, preview_session,
                    order_source, fn_in >>

NextTurn == OrderTurn

SpecTurn == InitTurn /\ [][NextTurn]_vars

-----------------------------------------------------------------------------
(* RefillAgent: predict and get_all_patient_refills, on any medication     *)
(* histories                                                               *)

\* one record of get_medicines_needing_refill: one per medicine of a patient
MedicationRecord(medicine_id, days_remaining) ==
    [medicine_id |-> medicine_id, days_remaining |-> days_remaining]

RefillPrediction(patient_id, med, action, urgency) ==
    [patient_id |-> patient_id, patient_name |-> PatientName(patient_id),
     medicine_id |-> med.medicine_id, days_remaining |-> med.days_remaining,
     action |-> action, urgency |-> urgency]

\* the if/elif chain of predict as it would be if the HIGH band ended at 2
\* days instead of 3
ClassifyHighToTwo(days_remaining) ==
    IF days_remaining <= 0 THEN [action |-> "BLOCK", urgency |-> "CRITICAL"]
    ELSE IF days_remaining <= 2 THEN [action |-> "REMIND", urgency |-> "HIGH"]
    ELSE IF days_remaining <= 7 THEN [action |-> "AUTO_REFILL", urgency |-> "MEDIUM"]
    ELSE IF days_remaining <= 14 THEN [action |-> "REMIND", urgency |-> "LOW"]
    ELSE [action |-> "none", urgency |-> "none"]

\* the if/elif chain of predict; "none" is the `continue` of the else branch
Classify(days_remaining) ==
    IF days_remaining <= 0 THEN [action |-> "BLOCK", urgency |-> "CRITICAL"]
    ELSE IF days_remaining <= 3 THEN [action |-> "REMIND", urgency |-> "HIGH"]
    ELSE IF days_remaining <= 7 THEN [action |-> "AUTO_REFILL", urgency |-> "MEDIUM"]
    ELSE IF days_remaining <= 14 THEN [action |-> "REMIND", urgency |-> "LOW"]
    ELSE [action |-> "none", urgency |-> "none"]

\* RefillAgent.predict: the loop over medication_history
RECURSIVE predict(_, _)
predict(patient_id, medication_history) ==
    IF medication_history = << >> THEN << >>
    ELSE LET med == Head(medication_history)
             class == Classify(med.days_remaining)
             rest == predict(patient_id, Tail(medication_history))
         IN  IF class.action = "none" THEN rest
             ELSE << RefillPrediction(patient_id, med, class.action, class.urgency) >>
                  \o rest

\* urgency_order.get(x.urgency, 4)
urgency_order(urgency) ==
    CASE urgency = "CRITICAL" -> 0
      [] urgency = "HIGH"     -> 1
      [] urgency = "MEDIUM"   -> 2
      [] urgency = "LOW"      -> 3
      [] OTHER                -> 4

\* a sort by urgency rank that puts an element after the elements of the
\* same rank that followed it, so that equal elements end up reversed
RECURSIVE SortByUrgencyUnstable(_)
SortByUrgencyUnstable(predictions) ==
    IF predictions = << >> THEN << >>
    ELSE LET x == Head(predictions)
             sorted == SortByUrgencyUnstable(Tail(predictions))
             before == SelectSeq(sorted,
                          LAMBDA y : urgency_order(y.urgency) <= urgency_order(x.urgency))
             after == SelectSeq(sorted,
                          LAMBDA y : urgency_order(y.urgency) > urgency_order(x.urgency))
         IN  before \o << x >> \o after

\* list.sort(key=...): ascending by key, elements of equal key in their
\* original order (insertion of the head in front of the sorted tail's
\* elements of the same or a higher rank)
RECURSIVE SortByUrgency(_)
SortByUrgency(predictions) ==
    IF predictions = << >> THEN << >>
    ELSE LET x == Head(predictions)
             sorted == SortByUrgency(Tail(predictions))
             before == SelectSeq(sorted,
                          LAMBDA y : urgency_order(y.urgency) < urgency_order(x.urgency))
             after == SelectSeq(sorted,
                          LAMBDA y : urgency_order(y.urgency) >= urgency_order(x.urgency))
         IN  before \o << x >> \o after

\* the loop of get_all_patient_refills: all_predictions after the last patient
RECURSIVE AllPredictions(_)
AllPredictions(histories) ==
    IF histories = << >> THEN << >>
    ELSE LET first == Head(histories)
         IN  (IF first.medication_history # << >>
                 THEN predict(first.patient_id, first.medication_history)
                 ELSE << >>)
             \o AllPredictions(Tail(histories))

\* RefillAgent.get_all_patient_refills
get_all_patient_refills(histories) == SortByUrgency(AllPredictions(histories))

\* most records in all the histories of one call
MaxRecords == 3

\* days of supply left: the ends of every band of predict and one value
\* beyond each end
RefillDays == {-5, 0, 1, 3, 4, 7, 8, 14, 15}

\* a history with one record per medicine: the i-th record is of medicine i
HistoriesOfLength(n) ==
    { [i \in 1..n |-> MedicationRecord(i, days[i])] : days \in [1..n -> RefillDays] }

\* one record in each band and one beyond the last
ExampleHistory ==
    << MedicationRecord(1, -5), MedicationRecord(2, 0), MedicationRecord(3, 2),
       MedicationRecord(4, 5), MedicationRecord(5, 10), MedicationRecord(6, 15) >>

\* the two patients of get_all_patients with histories h1 and h2
PatientHistories(h1, h2) ==
    << [patient_id |-> "P1", medication_history |-> h1],
       [patient_id |-> "P2", medication_history |-> h2] >>

\* the calls: at most MaxRecords records in the two histories together, and
\* the example history
RefillInputs ==
    UNION { UNION { { PatientHistories(h1, h2) :
                        h1 \in HistoriesOfLength(n1), h2 \in HistoriesOfLength(n2) } :
                    n2 \in 0..(MaxRecords - n1) } :
            n1 \in 0..MaxRecords }
    \cup { PatientHistories(ExampleHistory, << >>) }

InitRefill ==
    /\ Constructed
    /\ fn_in \in RefillInputs
    /\ fn_out = NotCalled

\* GET /api/refills/{patient_id}: predict on the history of the first patient
RefillPredict ==
    /\ fn_out = NotCalled
    /\ fn_out' = [decision |-> "predict",
                  predictions |-> predict(fn_in[1].patient_id, fn_in[1].medication_history)]
    /\ UNCHANGED << stock_level, orders_df, pending_previews, session_contexts, orders,
                    order_history, order_events, inflight, reply, preview_session,
                    order_source, fn_in >>

\* GET /api/refills: get_all_patient_refills
RefillAll ==
    /\ fn_out = NotCalled
    /\ fn_out' = [decision |-> "get_all_patient_refills",
                  predictions |-> get_all_patient_refills(fn_in)]
    /\ UNCHANGED << stock_level, orders_df, pending_previews, session_contexts, orders,
                    order_history, order_events, inflight, reply, preview_session,
                    order_source, fn_in >>

NextRefill == RefillPredict \/ RefillAll

SpecRefill == InitRefill /\ [][NextRefill]_vars

-----------------------------------------------------------------------------
(* FulfillmentAgent.generate_receipt.  Amounts are whole numbers of cents. *)

\* how round(x, 2) settles an x that lies half-way between two cents: the
\* float nearest to x is slightly below or slightly above the half-way point
HalfCent == {"down", "up"}

\* round(x, 2) as it would be if it cut off the part of a cent
TruncatedCents(numerator, denominator, half) == numerator \div denominator

\* round(x, 2) for x = numerator / denominator cents: the nearest cent
RoundedCents(numerator, denominator, half) ==
    LET below == numerator \div denominator
        rest == numerator % denominator
    IN  IF 2 * rest < denominator THEN below
        ELSE IF 2 * rest > denominator THEN below + 1
        ELSE IF half = "up" THEN below + 1
        ELSE below

\* delivery_fee = 2.00
DeliveryFee == 200

\* generate_receipt: tax is subtotal * 0.05, i.e. subtotal / 20
generate_receipt(order, half) ==
    LET Detail(item) == [medicine |-> item.medicine_name, quantity |-> item.quantity,
                         unit_price |-> item.unit_price,
                         total |-> RoundedCents(item.unit_price * item.quantity, 1, half)]
        subtotal == order.total_amount
        tax == RoundedCents(subtotal, 20, half)
        grand_total == RoundedCents(subtotal + tax + DeliveryFee, 1, half)
    IN  [decision |-> "generate_receipt", order_id |-> order.order_id,
         items |-> MapSeq(Detail, order.items), subtotal |-> subtotal, tax |-> tax,
         delivery_fee |-> DeliveryFee, grand_total |-> grand_total]

\* largest quantity of the one line of an order given a receipt
MaxReceiptQuantity == 30

\* medicines of the price map at 0.10, 0.15 and 0.85 a unit
ReceiptMedicines == {"Aspirin", "Paracetamol", "Atorvastatin"}

\* the order create_order makes of one line of the medicine
ReceiptOrder(medicine_name, quantity) ==
    create_order([orders |-> EmptyDict, order_history |-> EmptyDict,
                  order_events |-> EmptyDict],
                 OrderId(1), get_patient_by_id("P1"),
                 << [medicine_id |-> medicine_name, medicine_name |-> medicine_name,
                     strength |-> "", quantity |-> quantity, unit_price |-> 0,
                     prescription_required |-> FALSE] >>).orders[OrderId(1)]

\* an order of 100.00: 1000 units at 0.10
ExampleOrder == ReceiptOrder("Aspirin", 1000)

ReceiptInputs ==
    { ReceiptOrder(medicine_name, quantity) :
        medicine_name \in ReceiptMedicines, quantity \in 1..MaxReceiptQuantity }
    \cup { ExampleOrder }

InitReceipt ==
    /\ Constructed
    /\ fn_in \in ReceiptInputs
    /\ fn_out = NotCalled

\* generate_receipt on the order (chat confirm turn, line 403, and
\* GET /api/orders/{order_id}/receipt)
GenerateReceipt ==
    /\ fn_out = NotCalled
    /\ \E half \in HalfCent : fn_out' = generate_receipt(fn_in, half)
    /\ UNCHANGED << stock_level, orders_df, pending_previews, session_contexts, orders,
                    order_history, order_events, inflight, reply, preview_session,
                    order_source, fn_in >>

NextReceipt == GenerateReceipt

SpecReceipt == InitReceipt /\ [][NextReceipt]_vars

-----------------------------------------------------------------------------
(* The order table of FulfillmentAgent under create_order and              *)
(* update_order_status, with order ids as create_order generates them      *)

\* create_order calls in one run
MaxCreations == 3

\* entries of one order's status history
MaxHistory == 2

\* the values of uuid.uuid4().hex[:6] on one day: any of them may come out of
\* any call
GeneratedOrderIds == { OrderId(n) : n \in 1..MaxOrders }

\* item lists of the previews handed to create_order
CreatedItems ==
    { << [medicine_id |-> "M1", medicine_name |-> "Paracetamol", strength |-> "500mg",
          quantity |-> quantity, unit_price |-> PriceOf("Paracetamol"),
          prescription_required |-> FALSE] >> : quantity \in {1, 2} }

\* schemas.OrderStatus
OrderStatuses ==
    { "PENDING", "VALIDATED", "CONFIRMED", "PREPARING", "PROCESSING", "SHIPPED",
      "DELIVERED", "COMPLETED", "CANCELLED", "BLOCKED", "FAILED" }

\* create_order calls so far: each adds one "Order Requested" event, and no
\* event is ever removed
Creations ==
    LET Count(events) == Len(SelectSeq(events, LAMBDA e : e.action = "Order Requested"))
        RECURSIVE Total(_)
        Total(ids) == IF ids = {} THEN 0
                      ELSE LET id == CHOOSE x \in ids : TRUE
                           IN  Count(order_events[id]) + Total(ids \ {id})
    IN  Total(DOMAIN order_events)

InitOrders ==
    /\ Constructed
    /\ fn_in = << >>
    /\ fn_out = << >>

\* create_order: the id is whatever uuid4 gives
CreateOrder(order_id, patient_id, items) ==
    /\ Creations < MaxCreations
    /\ SetFA(create_order(FA, order_id, get_patient_by_id(patient_id), items))
    /\ fn_in' = << "create_order", order_id >>
    /\ UNCHANGED << stock_level, orders_df, pending_previews, session_contexts, inflight,
                    reply, preview_session, order_source, fn_out >>

\* update_order_status on any id and any status
UpdateOrderStatus(order_id, status) ==
    /\ order_id \in DOMAIN order_history => Len(order_history[order_id]) < MaxHistory
    /\ SetFA(update_order_status(FA, order_id, status, "status update"))
    /\ fn_in' = << "update_order_status", order_id >>
    /\ UNCHANGED << stock_level, orders_df, pending_previews, session_contexts, inflight,
                    reply, preview_session, order_source, fn_out >>

NextOrders ==
    \/ \E order_id \in GeneratedOrderIds, patient_id \in KnownPatients,
          items \in CreatedItems : CreateOrder(order_id, patient_id, items)
    \/ \E order_id \in RequestOrderIds, status \in OrderStatuses :
          UpdateOrderStatus(order_id, status)

SpecOrders == InitOrders /\ [][NextOrders]_vars

-----------------------------------------------------------------------------
(* Properties *)

SessionKeys == { SessionKey(request) : request \in ChatRequests }

\* previews in the store that the order turns of session key k stored
\* (creator maps a preview id to the session key of the turn that stored it)
PreviewsOf(previews, creator, k) == { p \in DOMAIN previews : creator[p] = k }

\* C1: after any sequence of order, confirm and cancel chat turns every
\* session has at most one preview of its own in the pending-preview store,
\* and a confirm or cancel turn that has completed leaves no preview of its
\* session in the store.
C1_OnePreviewPerSession ==
    [][ /\ \A k \in SessionKeys : Cardinality(PreviewsOf(pending_previews', preview_session', k)) <= 1
        /\ \A request \in ChatRequests :
              ChatCancel(request)
                  => PreviewsOf(pending_previews', preview_session', SessionKey(request)) = {}
        /\ \A task \in inflight, outcome \in WebhookOutcomes :
              (task.kind = "chat" /\ WebhookReturns(task, outcome))
                  => PreviewsOf(pending_previews', preview_session', task.session_id) = {}
      ]_vars

\* C2: at most one order is ever created from any one preview (so its stock
\* is decremented at most once), also when two confirm turns of the same
\* session overlap.
C2_OneOrderPerPreview ==
    \A o1, o2 \in DOMAIN order_source :
        order_source[o1] = order_source[o2] => o1 = o2

\* the only line item of an order, when it is `quantity` units of `medicine_id`
IsSingleLine(order, medicine_id, quantity) ==
    /\ Len(order.items) = 1
    /\ order.items[1].medicine_id = medicine_id
    /\ order.items[1].quantity = quantity

\* the quantity of medicine m in the line items of order o
OrderedQty(o, m) ==
    LET Qty(item) == IF item.medicine_id = m THEN item.quantity ELSE 0
    IN  SumSeq(MapSeq(Qty, orders[o].items))

RECURSIVE SumOver(_, _)
SumOver(F(_), S) ==
    IF S = {} THEN 0
    ELSE LET x == CHOOSE y \in S : TRUE IN F(x) + SumOver(F, S \ {x})

\* C3: with a medicine at stock 10 and two different sessions each holding a
\* preview for 6 units of it, the two confirm turns do not both end in an
\* order for the full 6 units: the second is capped or blocked.
C3_ExactlyOneInFull ==
    \A o1, o2 \in DOMAIN orders :
        ( /\ o1 # o2
          /\ preview_session[order_source[o1]] # preview_session[order_source[o2]]
          /\ InitialStock["M1"] = 10 )
        => ~ (IsSingleLine(orders[o1], "M1", 6) /\ IsSingleLine(orders[o2], "M1", 6))

\* how often the line items of order o have been taken off the stock: once by
\* the chat confirm turn that created it, once by every successful
\* POST /api/orders/{id}/confirm
Decrements(o) ==
    (IF o \in DOMAIN order_source THEN 1 ELSE 0)
    + Len(SelectSeq(order_history[o], LAMBDA u : u.message = "Order confirmed"))

\* units of medicine m taken off the stock by all confirmations so far
Sold(m) ==
    LET Taken(o) == OrderedQty(o, m) * Decrements(o)
    IN  SumOver(Taken, DOMAIN orders)

C5_CancelledIsFinal ==
    \A o \in DOMAIN order_history :
        \A i \in 1..Len(order_history[o]) :
            order_history[o][i].message = "Order cancelled by user"
                => i = Len(order_history[o]) /\ orders[o].status = "CANCELLED"

StatusChain ==
    << "PENDING", "VALIDATED", "CONFIRMED", "PREPARING", "PROCESSING", "SHIPPED",
       "DELIVERED", "COMPLETED" >>

Position(status) == CHOOSE i \in 1..Len(StatusChain) : StatusChain[i] = status

\* the statuses an order went through, changes into CANCELLED left aside
Progress(o) ==
    LET Status(u) == u.status
    IN  SelectSeq(MapSeq(Status, order_history[o]), LAMBDA st : st # "CANCELLED")

\* C6: leaving aside changes into CANCELLED, every status change of an order
\* moves to a status of equal or later position in PENDING, VALIDATED,
\* CONFIRMED, PREPARING, PROCESSING, SHIPPED, DELIVERED, COMPLETED.
C6_StatusNeverMovesBack ==
    \A o \in DOMAIN order_history :
        /\ \A i \in 1..Len(Progress(o)) :
              \E j \in 1..Len(StatusChain) : StatusChain[j] = Progress(o)[i]
        /\ \A i \in 1..(Len(Progress(o)) - 1) :
              Position(Progress(o)[i]) <= Position(Progress(o)[i + 1])

\* an order that, after its confirm pipeline, got a status update from an
\* endpoint and one from the fulfillment notification
C6_Witness ==
    \E o \in DOMAIN order_history :
        /\ \E i \in 1..Len(order_history[o]) :
              order_history[o][i].message \in EndpointMessages
        /\ \E i \in 1..Len(order_history[o]) :
              order_history[o][i].message = "Order sent to warehouse for fulfillment"

PipelineStatuses == << "PENDING", "VALIDATED", "CONFIRMED", "PROCESSING" >>

PipelineEvents ==
    << "Order Requested", "AI Safety Validation", "AI Order Confirmed",
       "Inventory Updated", "Fulfillment Initiated" >>

IsPrefix(s, t) == Len(s) <= Len(t) /\ \A i \in 1..Len(s) : s[i] = t[i]

Statuses(o) == LET Status(u) == u.status IN MapSeq(Status, order_history[o])

EventActions(o) == LET Action(e) == e.action IN MapSeq(Action, order_events[o])

Occurrences(s, x) == Cardinality({ i \in 1..Len(s) : s[i] = x })

\* no endpoint has updated the status of order o
Untouched(o) ==
    \A i \in 1..Len(order_history[o]) : order_history[o][i].message \notin EndpointMessages

\* C7: a chat confirm turn creates the order in PENDING and sets VALIDATED,
\* CONFIRMED, PROCESSING in that order; the timeline receives order requested,
\* safety validation, order confirmed, inventory updated (for all line items)
\* and fulfillment initiated in that order, each once; the history reads
\* PENDING, VALIDATED, CONFIRMED, PROCESSING when the notification is issued.
C7_ConfirmPipelineOrder ==
    /\ \A o \in DOMAIN order_source :
          /\ IsPrefix(PipelineStatuses, Statuses(o))
          /\ IsPrefix(PipelineEvents, EventActions(o))
          /\ \A i \in 1..Len(PipelineEvents) :
                Occurrences(EventActions(o), PipelineEvents[i]) = 1
          /\ \A i \in 1..3 : Occurrences(Statuses(o), PipelineStatuses[i]) = 1
          /\ LET Qty(item) == item.quantity
             IN  order_events[o][4].description[3] = SumSeq(MapSeq(Qty, orders[o].items))
    /\ \A task \in inflight :
          (task.kind = "chat" /\ Untouched(task.order_id))
              => /\ Statuses(task.order_id) = PipelineStatuses
                 /\ EventActions(task.order_id) = PipelineEvents

\* a chat confirm turn is suspended on the notification of an order of two
\* line items
C7_Witness ==
    \E task \in inflight :
        /\ task.kind = "chat"
        /\ Untouched(task.order_id)
        /\ Len(orders[task.order_id].items) = 2

\* C8: the chat confirm turn does not wait for the fulfillment notification:
\* at the point where the notification call of a turn is outstanding, the
\* turn has already cleared the preview it confirmed (the step that the code
\* takes together with producing the confirmation reply).
C8_ReplyDoesNotWait ==
    \A task \in inflight :
        task.kind = "chat" => task.preview_id \notin DOMAIN pending_previews

\* C9: whatever the outcome of the fulfillment notification, when no other
\* request touches the order the chat confirm turn ends with the order in
\* PROCESSING and the confirmation reply, and a Dispatched event and an extra
\* PROCESSING history entry are appended if and only if the outcome was 200.
C9_NotificationNeverFailsConfirm ==
    [][ \A task \in inflight, outcome \in WebhookOutcomes :
          ( /\ task.kind = "chat"
            /\ Untouched(task.order_id)
            /\ WebhookReturns(task, outcome) )
          => LET o == task.order_id
             IN  /\ orders'[o].status = "PROCESSING"
                 /\ reply' = Response("chat", 200, "order confirmed", o)
                 /\ IF outcome = "200"
                       THEN /\ order_history'[o] = Append(order_history[o],
                                   [status |-> "PROCESSING",
                                    message |-> "Order sent to warehouse for fulfillment"])
                            /\ Occurrences(MapSeq(LAMBDA e : e.action, order_events'[o]),
                                           "Dispatched")
                               = Occurrences(EventActions(o), "Dispatched") + 1
                       ELSE /\ order_history'[o] = order_history[o]
                            /\ Occurrences(MapSeq(LAMBDA e : e.action, order_events'[o]),
                                           "Dispatched")
                               = Occurrences(EventActions(o), "Dispatched")
      ]_vars

\* an item evaluate must block: discontinued, or nothing in stock
Blocked(medicine) == medicine.discontinued \/ medicine.stock_level = 0

\* C10: for 1..N matched items and any entity list, evaluate returns REJECT
\* if and only if every matched item is discontinued or at stock level 0.
C10_RejectIffAllBlocked ==
    fn_out.decision # "not called"
        => ( fn_out.decision = "REJECT"
             <=> \A i \in 1..Len(fn_in.matched_medicines) :
                    Blocked(fn_in.matched_medicines[i]) )

\* a call on two items, one discontinued and one out of stock, was rejected
C10_Witness ==
    /\ fn_out.decision = "REJECT"
    /\ Len(fn_in.matched_medicines) = 2
    /\ fn_in.matched_medicines[1].discontinued
    /\ ~fn_in.matched_medicines[2].discontinued
    /\ fn_in.matched_medicines[2].stock_level = 0

\* the condition under which a decision that is not REJECT is to be
\* CONDITIONAL: an item is blocked, a prescription is required and absent,
\* follow-up is required, or a cap was set (to any value, 0 included)
MustBeConditional ==
    \/ \E i \in 1..Len(fn_in.matched_medicines) : Blocked(fn_in.matched_medicines[i])
    \/ (fn_out.requires_prescription /\ ~fn_in.has_prescription)
    \/ fn_out.requires_followup
    \/ fn_out.allowed_quantity # NoneQty

\* C11: a decision that is not REJECT is CONDITIONAL exactly when an item is
\* blocked, or a prescription is required and absent, or follow-up is
\* required, or an allowed-quantity cap was set to any value; otherwise it is
\* APPROVE, with the reason "All safety checks passed." when the pass
\* accumulated no reason.
C11_ConditionalOrApprove ==
    fn_out.decision \notin {"not called", "REJECT"}
        => /\ fn_out.decision = "CONDITIONAL" <=> MustBeConditional
           /\ ~MustBeConditional => fn_out.decision = "APPROVE"
           /\ ( /\ fn_out.decision = "APPROVE"
                /\ EvalLoop(EvalStart, fn_in.entities, fn_in.matched_medicines,
                            fn_in.has_prescription, 1).reasons = << >> )
              => fn_out.reasons = << <<"All safety checks passed.", "", 0>> >>

\* the cap that one item triggers on its own: none when the item is blocked
\* or the request fits both stock and order limit
ItemCap(medicine, requested_qty) ==
    IF Blocked(medicine) THEN NoneQty
    ELSE IF medicine.stock_level < requested_qty
        THEN Min(medicine.stock_level, medicine.max_quantity_per_order)
    ELSE IF requested_qty > medicine.max_quantity_per_order
        THEN medicine.max_quantity_per_order
    ELSE NoneQty

\* the cap of the first item of the call that triggers one
FirstCap ==
    LET Cap(i) == ItemCap(fn_in.matched_medicines[i], RequestedQty(fn_in.entities, i))
        capped == { i \in 1..Len(fn_in.matched_medicines) : Cap(i) # NoneQty }
    IN  IF capped = {} THEN NoneQty
        ELSE Cap(CHOOSE i \in capped : \A j \in capped : i <= j)

\* C12: within one pass the first item that triggers a cap determines the
\* returned allowed_quantity; no later item changes it.
C12_FirstCapWins ==
    fn_out.decision # "not called" => fn_out.allowed_quantity = FirstCap

\* C13: one matched item, not discontinued, not prescription-only, not
\* controlled, with 0 < stock < requested quantity, gives CONDITIONAL with
\* allowed_quantity = min(stock, max_quantity_per_order).
C13_SingleItemLowStock ==
    ( /\ fn_out.decision # "not called"
      /\ Len(fn_in.matched_medicines) = 1
      /\ ~fn_in.matched_medicines[1].discontinued
      /\ ~fn_in.matched_medicines[1].prescription_required
      /\ ~fn_in.matched_medicines[1].controlled_substance
      /\ 0 < fn_in.matched_medicines[1].stock_level
      /\ fn_in.matched_medicines[1].stock_level < RequestedQty(fn_in.entities, 1) )
    => /\ fn_out.decision = "CONDITIONAL"
       /\ fn_out.allowed_quantity =
            Min(fn_in.matched_medicines[1].stock_level,
                fn_in.matched_medicines[1].max_quantity_per_order)

\* the entities with every unspecified quantity (0) written out as 30
WithDefaults(entities) ==
    [i \in 1..Len(entities) |->
        IF entities[i].quantity = 0 THEN [entities[i] EXCEPT !.quantity = 30]
        ELSE entities[i]]

\* C14: an entity of quantity 0 is treated as a request for 30 both by the
\* safety evaluation and in the preview line item, and whenever the safety
\* decision carries an allowed-quantity cap the line item's quantity is
\* min(30 or the stated quantity, allowed_quantity).
C14_DefaultQuantityAndCap ==
    (fn_out.decision \notin {"not called", "REJECT"})
    => /\ fn_out.safety_result
            = evaluate(WithDefaults(fn_in.entities), fn_in.matched_medicines, FALSE)
       /\ Len(fn_out.items) = Len(fn_in.matched_medicines)
       /\ \A i \in 1..Len(fn_out.items) :
            LET asked == WithDefaults(fn_in.entities)[i].quantity
                cap == fn_out.safety_result.allowed_quantity
            IN  fn_out.items[i].quantity =
                    IF cap # NoneQty THEN Min(asked, cap) ELSE asked

\* C15: POST /api/orders/{id}/confirm on an order that is not PENDING (in
\* particular CANCELLED) answers 400 and leaves the order's status, history
\* and timeline and the stock unchanged, and schedules no notification.
C15_ConfirmNonPendingRejected ==
    [][ \A order_id \in RequestOrderIds :
          ( /\ order_id \in DOMAIN orders
            /\ orders[order_id].status # "PENDING"
            /\ ConfirmOrderEndpoint(order_id) )
          => /\ reply' = Response("confirm_order", 400, "Order is not pending", << >>)
             /\ UNCHANGED << orders, order_history, order_events, stock_level, inflight >>
      ]_vars

\* the confirm endpoint has just refused the only order, which was cancelled before
C15_Witness ==
    /\ reply = Response("confirm_order", 400, "Order is not pending", << >>)
    /\ Cardinality(DOMAIN orders) = 1
    /\ \A o \in DOMAIN orders : orders[o].status = "CANCELLED"

\* C16: POST /api/orders/{id}/cancel answers 404 for an unknown id, answers
\* 400 and changes nothing for an order that is COMPLETED or CANCELLED, and
\* otherwise sets the order to CANCELLED and appends exactly one history entry.
C16_CancelEndpoint ==
    [][ \A order_id \in RequestOrderIds :
          CancelOrderEndpoint(order_id)
          => IF order_id \notin DOMAIN orders
             THEN /\ reply'.status = 404
                  /\ UNCHANGED << orders, order_history, order_events >>
             ELSE IF orders[order_id].status \in {"COMPLETED", "CANCELLED"}
             THEN /\ reply'.status = 400
                  /\ UNCHANGED << orders, order_history, order_events >>
             ELSE /\ orders'[order_id].status = "CANCELLED"
                  /\ Len(order_history'[order_id]) = Len(order_history[order_id]) + 1
                  /\ order_history'[order_id][Len(order_history'[order_id])].status
                        = "CANCELLED"
                  /\ \A o \in DOMAIN orders \ {order_id} :
                        /\ orders'[o] = orders[o]
                        /\ order_history'[o] = order_history[o]
      ]_vars

\* the cancel endpoint has just refused to cancel the only order, already cancelled
C16_Witness ==
    /\ reply = Response("cancel_order", 400, "Cannot cancel order", << >>)
    /\ Cardinality(DOMAIN orders) = 1
    /\ \A o \in DOMAIN orders : orders[o].status = "CANCELLED"

\* a chat turn that ends in the general branch or in the dispatch itself,
\* on the given outcome of the classifier call
ClassifiedTurn(request, response) ==
    ChatGeneral(request, response) \/ ChatIntentMissing(request, response)

\* any chat turn on the given request
ChatTurn(request) ==
    \/ ChatPatientNotFound(request)
    \/ \E extraction_result \in ExtractionResults : ChatOrder(request, extraction_result)
    \/ ChatConfirm(request)
    \/ ChatCancel(request)
    \/ \E response \in ClassifierResponses : ClassifiedTurn(request, response)

\* C17: when the classifier call fails the turn is handled as
\* GENERAL_INQUIRY: the reply is a generic apology carrying no detail of the
\* failure, and no preview, session binding, order, timeline or stock changes.
C17_ClassifierFailureReply ==
    [][ \A request \in ChatRequests :
          ClassifiedTurn(request, "call failed")
          => /\ reply' = Response("chat", 200, "apology", << >>)
             /\ UNCHANGED << pending_previews, session_contexts, orders, order_history,
                             order_events, stock_level, orders_df, inflight >>
      ]_vars

\* C18: a classifier response without one of the six intents (text that is
\* not JSON, a JSON object without "intent", an unrecognised value) is
\* treated as GENERAL_INQUIRY: the turn answers normally, only the general
\* branch runs, nothing else changes.
C18_UnrecognisedIsGeneral ==
    [][ \A request \in ChatRequests :
          \A response \in {"not JSON", "no intent field", "SMALL_TALK"} :
            ClassifiedTurn(request, response)
            => /\ reply'.op = "chat" /\ reply'.status = 200
               /\ reply'.kind \in {"draft", "apology"}
               /\ UNCHANGED << pending_previews, session_contexts, orders,
                               order_history, order_events, stock_level, orders_df,
                               inflight >>
      ]_vars

\* C19: for a patient id without record, process_message answers "patient
\* record not found" instead of raising, runs neither classifier nor handler,
\* and leaves all session, preview, order and stock state unchanged.
C19_UnknownPatient ==
    [][ \A request \in ChatRequests :
          (request.patient_id \notin KnownPatients /\ ChatTurn(request))
          => /\ reply' = Response("chat", 200, "patient not found", << >>)
             /\ UNCHANGED << pending_previews, session_contexts, orders, order_history,
                             order_events, stock_level, orders_df, inflight >>
      ]_vars

\* an unknown patient has just been answered while a preview is pending and
\* an order exists
C19_Witness ==
    /\ reply = Response("chat", 200, "patient not found", << >>)
    /\ DOMAIN pending_previews # {}
    /\ DOMAIN orders # {}

\* the session of a request: its session id, or the patient id when it has none
RequestSession(request) ==
    IF request.session_id = NoSession THEN request.patient_id ELSE request.session_id

\* the session of the request is bound to a preview that is in the store
HasPendingPreview(request) ==
    /\ RequestSession(request) \in DOMAIN session_contexts
    /\ session_contexts[RequestSession(request)] \in DOMAIN pending_previews

\* C20: a confirm turn in a session without pending preview answers "no
\* pending order to confirm" and changes nothing: no order, no stock
\* decrement, no timeline or history entry, no notification, preview store
\* and session bindings unchanged.
C20_NothingToConfirm ==
    [][ \A request \in ChatRequests :
          ( /\ request.patient_id \in KnownPatients
            /\ ~HasPendingPreview(request)
            /\ ChatConfirm(request) )
          => /\ reply' = Response("chat", 200, "nothing to confirm", << >>)
             /\ UNCHANGED << pending_previews, session_contexts, orders, order_history,
                             order_events, stock_level, orders_df, inflight >>
      ]_vars

\* a confirm has just been refused for want of a preview while another
\* session is bound to a stored preview
C20_Witness ==
    /\ reply = Response("chat", 200, "nothing to confirm", << >>)
    /\ DOMAIN pending_previews # {}
    /\ Cardinality(DOMAIN session_contexts) = 1


\* C21: the cancel turn is idempotent and never an error: it always gives
\* the cancellation reply, removes the preview bound to its session and the
\* binding when there are any, and a second cancel right after it leaves the
\* preview store and the bindings (and orders and stock) as the first did.
C21_CancelIdempotent ==
    [][ \A request \in ChatRequests :
          ChatCancel(request)
            => LET k == RequestSession(request)
                   again == handle_order_cancellation(pending_previews', session_contexts', k)
               IN  /\ reply' = Response("chat", 200, "cancelled", << >>)
                   /\ k \notin DOMAIN session_contexts'
                   /\ k \in DOMAIN session_contexts
                        => session_contexts[k] \notin DOMAIN pending_previews'
                   /\ again.pending_previews = pending_previews'
                   /\ again.session_contexts = session_contexts'
                   /\ UNCHANGED << orders, order_history, order_events, stock_level,
                                   orders_df >>
      ]_vars

\* a cancel turn has removed a pending preview while an order exists
C21_Witness ==
    /\ reply = Response("chat", 200, "cancelled", << >>)
    /\ DOMAIN orders # {}
    /\ \E p \in DOMAIN preview_session :
          /\ p \notin DOMAIN pending_previews
          /\ preview_session[p] \notin DOMAIN session_contexts
          /\ \A o \in DOMAIN order_source : order_source[o] # p


\* the order turn ends before Step 4: clarification needed, no entity, no
\* catalog match, or the safety decision is REJECT
NoPreviewCase(extraction_result) ==
    LET entities == extraction_result.entities
        matched_medicines == MatchMedicines(entities, stock_level)
    IN  IF extraction_result.needs_clarification THEN "clarification"
        ELSE IF entities = << >> THEN "no medication identified"
        ELSE IF matched_medicines = << >> THEN "not in inventory"
        ELSE IF evaluate(entities, matched_medicines, FALSE).decision = "REJECT"
            THEN "refused"
        ELSE "preview"

\* C22: an order turn whose safety decision is REJECT replies with a refusal
\* and creates no preview: the pending-preview store, the session bindings,
\* the orders and the stock are as before the turn; the same holds when the
\* extraction needs clarification, yields no entity, or matches nothing.
C22_RejectCreatesNoPreview ==
    [][ \A request \in ChatRequests, extraction_result \in ExtractionResults :
          (ChatOrder(request, extraction_result)
              /\ NoPreviewCase(extraction_result) # "preview")
            => /\ reply' = Response("chat", 200, NoPreviewCase(extraction_result), << >>)
               /\ UNCHANGED << pending_previews, session_contexts, orders, order_history,
                               order_events, stock_level, orders_df >>
      ]_vars

\* an order turn was refused while a preview was pending and an order existed
C22_Witness ==
    /\ reply = Response("chat", 200, "refused", << >>)
    /\ DOMAIN pending_previews # {}
    /\ DOMAIN session_contexts # {}
    /\ DOMAIN orders # {}


\* medicine, quantity and unit price of each line item
Lines(items) ==
    [i \in 1..Len(items) |->
        << items[i].medicine_id, items[i].quantity, items[i].unit_price >>]

\* C23: every order was created by a chat confirm turn that found a pending
\* preview bound to its session, with the line items (medicine, quantity,
\* unit price) and the total amount of that preview; no other operation
\* creates an order, and none changes the items or the total afterwards.
C23_OrdersComeFromPreviews ==
    [][ /\ \A o \in DOMAIN orders' \ DOMAIN orders :
              \E request \in ChatRequests :
                  /\ ChatConfirm(request)
                  /\ HasPendingPreview(request)
                  /\ LET preview == pending_previews[session_contexts[RequestSession(request)]]
                     IN  /\ Lines(orders'[o].items) = Lines(preview.items)
                         /\ orders'[o].total_amount = preview.total_amount
        /\ \A o \in DOMAIN orders :
              /\ o \in DOMAIN orders'
              /\ Lines(orders'[o].items) = Lines(orders[o].items)
              /\ orders'[o].total_amount = orders[o].total_amount
      ]_vars

\* an order stands next to the preview it was created from, which is still
\* in the store, and the two agree on a non-empty item list and a total
C23_Witness ==
    \E o \in DOMAIN orders :
        /\ o \in DOMAIN order_source
        /\ order_source[o] \in DOMAIN pending_previews
        /\ orders[o].items # << >>
        /\ orders[o].total_amount > 0
        /\ Lines(orders[o].items) = Lines(pending_previews[order_source[o]].items)
        /\ orders[o].total_amount = pending_previews[order_source[o]].total_amount


\* the binding of session key k and the preview it is bound to are the same
\* before and after the step
SessionUntouched(k) ==
    /\ (k \in DOMAIN session_contexts') = (k \in DOMAIN session_contexts)
    /\ k \in DOMAIN session_contexts
         => /\ session_contexts'[k] = session_contexts[k]
            /\ (session_contexts[k] \in DOMAIN pending_previews')
                  = (session_contexts[k] \in DOMAIN pending_previews)
            /\ session_contexts[k] \in DOMAIN pending_previews
                 => pending_previews'[session_contexts[k]]
                       = pending_previews[session_contexts[k]]

\* C24: sessions are independent: an order, confirm or cancel turn of one
\* session (the confirm turn both up to its suspension and from its
\* resumption to its end) never creates, replaces or removes the binding or
\* the pending preview of a different session key.
C24_SessionsIndependent ==
    [][ /\ \A request \in ChatRequests :
              ( \/ \E extraction_result \in ExtractionResults :
                        ChatOrder(request, extraction_result)
                \/ ChatConfirm(request)
                \/ ChatCancel(request) )
              => \A k \in SessionKeys \ {RequestSession(request)} : SessionUntouched(k)
        /\ \A task \in inflight, outcome \in WebhookOutcomes :
              (task.kind = "chat" /\ WebhookReturns(task, outcome))
              => \A k \in SessionKeys \ {task.session_id} : SessionUntouched(k)
      ]_vars

\* a confirm turn of one session has run to its end and removed its preview
\* while another session is still bound to its own pending preview
C24_Witness ==
    /\ reply.kind = "order confirmed"
    /\ \E o \in DOMAIN order_source :
          /\ order_source[o] \notin DOMAIN pending_previews
          /\ \E k \in DOMAIN session_contexts :
                /\ k # preview_session[order_source[o]]
                /\ session_contexts[k] \in DOMAIN pending_previews


\* the result of predict on the history of the call
Predicted == fn_out.predictions

\* the records of the history that predict keeps: at most 14 days left
Kept(medication_history) ==
    SelectSeq(medication_history, LAMBDA med : med.days_remaining <= 14)

\* action and urgency the bands give a number of days of at most 14
Band(days_remaining) ==
    CASE days_remaining \in 1..3   -> << "REMIND", "HIGH" >>
      [] days_remaining \in 4..7   -> << "AUTO_REFILL", "MEDIUM" >>
      [] days_remaining \in 8..14  -> << "REMIND", "LOW" >>
      [] OTHER                     -> << "BLOCK", "CRITICAL" >>

\* C25: predict classifies by days_remaining alone: <= 0 BLOCK/CRITICAL,
\* 1..3 REMIND/HIGH, 4..7 AUTO_REFILL/MEDIUM, 8..14 REMIND/LOW, above 14 left
\* out; the result has one prediction per record with at most 14 days left,
\* in the order of the records; the days -5, 0, 2, 5, 10, 15 give BLOCK,
\* BLOCK, REMIND, AUTO_REFILL, REMIND and nothing.
C25_PredictBands ==
    fn_out.decision = "predict"
      => LET kept == Kept(fn_in[1].medication_history)
         IN  /\ Len(Predicted) = Len(kept)
             /\ \A i \in 1..Len(kept) :
                   /\ Predicted[i].medicine_id = kept[i].medicine_id
                   /\ Predicted[i].days_remaining = kept[i].days_remaining
                   /\ Predicted[i].patient_id = fn_in[1].patient_id
                   /\ << Predicted[i].action, Predicted[i].urgency >>
                        = Band(kept[i].days_remaining)
             /\ fn_in[1].medication_history = ExampleHistory
                  => [i \in 1..Len(Predicted) |-> Predicted[i].action]
                        = << "BLOCK", "BLOCK", "REMIND", "AUTO_REFILL", "REMIND" >>

\* predict has run on the example history
C25_Witness ==
    /\ fn_out.decision = "predict"
    /\ fn_in[1].medication_history = ExampleHistory
    /\ Len(Predicted) = 5

\* the predictions of urgency u, in their order in the list
OfUrgency(predictions, u) == SelectSeq(predictions, LAMBDA x : x.urgency = u)

\* C26: the batch operation returns the concatenated per-patient predictions
\* rearranged: ordered by urgency rank CRITICAL, HIGH, MEDIUM, LOW, with the
\* predictions of equal urgency in their order in the concatenation.
C26_BatchStableSort ==
    fn_out.decision = "get_all_patient_refills"
      => LET concatenation ==
                 predict(fn_in[1].patient_id, fn_in[1].medication_history)
                 \o predict(fn_in[2].patient_id, fn_in[2].medication_history)
         IN  /\ Len(Predicted) = Len(concatenation)
             /\ \A i \in 1..Len(Predicted), j \in 1..Len(Predicted) :
                   i < j => urgency_order(Predicted[i].urgency)
                              <= urgency_order(Predicted[j].urgency)
             /\ \A u \in {"CRITICAL", "HIGH", "MEDIUM", "LOW"} :
                   OfUrgency(Predicted, u) = OfUrgency(concatenation, u)
             /\ \A i \in 1..Len(Predicted) :
                   Predicted[i].urgency \in {"CRITICAL", "HIGH", "MEDIUM", "LOW"}

\* the batch has moved a later, more urgent prediction in front of an earlier
\* one and kept two predictions of equal urgency of different patients
C26_Witness ==
    /\ fn_out.decision = "get_all_patient_refills"
    /\ Len(Predicted) = 3
    /\ Predicted[1].patient_id = "P2"
    /\ Predicted[2].patient_id = "P1"
    /\ Predicted[3].patient_id = "P2"
    /\ Predicted[2].urgency = Predicted[3].urgency
    /\ Predicted[1].urgency # Predicted[2].urgency


\* C27: for a subtotal s in whole cents the receipt has tax = 5% of s rounded
\* to the cent (at most half a cent from s / 20), delivery fee 2.00 and grand
\* total s + tax + delivery fee; 100.00 gives 5.00, 2.00 and 107.00.
C27_ReceiptArithmetic ==
    fn_out.decision = "generate_receipt"
      => LET s == fn_in.total_amount
         IN  /\ fn_out.subtotal = s
             /\ 20 * fn_out.tax - s <= 10
             /\ s - 20 * fn_out.tax <= 10
             /\ fn_out.delivery_fee = 200
             /\ fn_out.grand_total = s + fn_out.tax + 200
             /\ s = 10000 => fn_out.tax = 500 /\ fn_out.grand_total = 10700

\* the receipt of the order of 100.00
C27_Witness ==
    /\ fn_out.decision = "generate_receipt"
    /\ fn_in = ExampleOrder
    /\ fn_out.subtotal = 10000
    /\ fn_out.grand_total = 10700


\* C28: no two created orders share an order id: creating an order never
\* reuses the id of an order in the table, and so never replaces an existing
\* order or its status history.
C28_OrderIdsNeverReused ==
    [][ \A order_id \in GeneratedOrderIds, patient_id \in KnownPatients,
           items \in CreatedItems :
          CreateOrder(order_id, patient_id, items)
            => /\ order_id \notin DOMAIN orders
               /\ \A o \in DOMAIN orders :
                     /\ orders'[o] = orders[o]
                     /\ order_history'[o] = order_history[o]
      ]_vars


\* C29: each order's timeline is append-only: in every step the timeline an
\* order had before is a prefix of the one it has after; no event is edited,
\* moved or removed.
C29_TimelineAppendOnly ==
    [][ \A o \in DOMAIN order_events :
          /\ o \in DOMAIN order_events'
          /\ IsPrefix(order_events[o], order_events'[o])
      ]_vars

\* events were recorded on the timeline of an order after the step that
\* created it: the five of the confirm pipeline are followed by others
C29_Witness ==
    \E o \in DOMAIN order_events :
        /\ Len(order_events[o]) > Len(PipelineEvents)
        /\ IsPrefix(PipelineEvents, EventActions(o))

\* C30: update_order_status on a known order sets the status to the new
\* status whatever the previous one and appends exactly one entry to the
\* order's status history and exactly one event to its timeline; on an
\* unknown id it changes nothing.
C30_UpdateOrderStatus ==
    [][ \A order_id \in RequestOrderIds, status \in OrderStatuses :
          UpdateOrderStatus(order_id, status)
            => IF order_id \in DOMAIN orders
               THEN /\ orders'[order_id].status = status
                    /\ Len(order_history'[order_id]) = Len(order_history[order_id]) + 1
                    /\ Len(order_events'[order_id]) = Len(order_events[order_id]) + 1
               ELSE UNCHANGED << orders, order_history, order_events >>
      ]_vars


\* the names in a list of names
Names(list) == { list[i] : i \in 1..Len(list) }

\* C31: no preview contains a line item for a medicine the safety evaluation
\* of the turn put in the blocked list (discontinued or out of stock): when
\* the decision is CONDITIONAL because some items are blocked, the blocked
\* items are left out of the preview.
C31_BlockedItemsLeftOut ==
    fn_out.decision \in {"CONDITIONAL", "APPROVE"}
      => \A i \in 1..Len(fn_out.items) :
            fn_out.items[i].medicine_name \notin Names(fn_out.safety_result.blocked_items)


\* C32: every created order carries the patient identity of the preview it
\* was created from, also when turns of different patients use one session
\* id: order.patient_id equals the patient_id of the consumed preview.
C32_OrderPatientIsPreviewPatient ==
    [][ \A request \in SharedSessionRequests :
          (ChatConfirm(request) /\ HasPendingPreview(request))
            => \A o \in DOMAIN orders' \ DOMAIN orders :
                  orders'[o].patient_id
                    = pending_previews[session_contexts[RequestSession(request)]].patient_id
      ]_vars


\* C33: a preview stored by an order turn stays bound to its session until a
\* cancel turn or a confirm turn started after it removes it: when a confirm
\* turn that was suspended while a newer order turn of its session ran comes
\* to its end, the session stays bound to the newer preview and that preview
\* stays in the store.
C33_NewerPreviewStaysBound ==
    [][ \A task \in inflight, outcome \in WebhookOutcomes :
          ( /\ task.kind = "chat"
            /\ task.session_id \in DOMAIN session_contexts
            /\ session_contexts[task.session_id] # task.preview_id
            /\ session_contexts[task.session_id] \in DOMAIN pending_previews
            /\ WebhookReturns(task, outcome) )
          => /\ task.session_id \in DOMAIN session_contexts'
             /\ session_contexts'[task.session_id] = session_contexts[task.session_id]
             /\ session_contexts[task.session_id] \in DOMAIN pending_previews'
      ]_vars

\* C34: every chat confirm turn that has created an order ends with the
\* confirmation reply for that order, whatever other turns of its session
\* ran while it was suspended on the fulfillment notification.
C34_ConfirmEndsWithConfirmation ==
    [][ \A task \in inflight, outcome \in WebhookOutcomes :
          (task.kind = "chat" /\ WebhookReturns(task, outcome))
            => reply' = Response("chat", 200, "order confirmed", task.order_id)
      ]_vars


\* the entities whose name search found a medicine, in their order: the
\* i-th of them is the one that produced the i-th matched medicine
Producing(entities) ==
    SelectSeq(entities, LAMBDA entity : search_medicine(entity.medicine, stock_level) # << >>)

\* C35: each line item pairs a catalog medicine with the quantity of the
\* entity whose search produced it, and the safety evaluation checks each
\* matched medicine against that entity's quantity, also when an earlier
\* entity found no match: decision, safety result and items are those of the
\* turn on the producing entities alone.
C35_ItemsPairedWithProducingEntity ==
    fn_out.decision \in {"APPROVE", "CONDITIONAL", "REJECT"}
      => LET producing == Producing(fn_in)
             safety_result == evaluate(producing, fn_out.matched_medicines, FALSE)
         IN  /\ Len(producing) = Len(fn_out.matched_medicines)
             /\ fn_out.safety_result = safety_result
             /\ fn_out.decision # "REJECT"
                  => fn_out.items
                       = BuildPreview(PreviewId(1), get_patient_by_id("P1"), producing,
                                      fn_out.matched_medicines, safety_result).items


\* C36: in every state, every order in the order table has a non-empty
\* status history whose first entry is PENDING and whose last entry has the
\* order's current status.
C36_HistoryMatchesStatus ==
    \A o \in DOMAIN orders :
        /\ o \in DOMAIN order_history
        /\ Len(order_history[o]) >= 1
        /\ order_history[o][1].status = "PENDING"
        /\ order_history[o][Len(order_history[o])].status = orders[o].status

\* an order went through the confirm pipeline and was then cancelled: its
\* history runs from PENDING to CANCELLED
C36_Witness ==
    \E o \in DOMAIN orders :
        /\ orders[o].status = "CANCELLED"
        /\ Len(order_history[o]) > Len(PipelineStatuses)
        /\ order_history[o][1].status = "PENDING"
        /\ order_history[o][Len(order_history[o])].status = "CANCELLED"

\* quantities a stock update may be given: none, some, more than any stock
SoldQuantities == {0, 1, DefaultQuantity}

C38_OnlyProcessingOrCancelled ==
    /\ \A o \in DOMAIN orders :
          /\ orders[o].status \in {"PROCESSING", "CANCELLED"}
          /\ \A i \in 1..Len(order_history[o]) :
                order_history[o][i].status
                    \in {"PENDING", "VALIDATED", "CONFIRMED", "PROCESSING", "CANCELLED"}
    /\ \A task \in inflight : task.kind = "chat"
    /\ ~(reply.op = "confirm_order" /\ reply.status = 200)

\* the order-confirm endpoint has just refused an order made by a chat
\* confirm turn, while that turn is still suspended
C38_Witness ==
    /\ reply = Response("confirm_order", 400, "Order is not pending", << >>)
    /\ \E task \in inflight : orders[task.order_id].status = "PROCESSING"

=============================================================================
